---------------------------- MODULE Spec2Model ----------------------------
(***************************************************************************)
(* A model of the scrago crawling engine: the task schedulers              *)
(* (scheduler/scheduler.go), the batched downloader (downloader, kept in   *)
(* src/spiders/README.md) and the engine's run loop (engine/engine.go).    *)
(*                                                                         *)
(* Seven specifications share the module:                                  *)
(*   SpecBatch  one DownloadBatch / DownloadBatchWithContext call and its  *)
(*              consumer;                                                  *)
(*   SpecSched  one scheduler under concurrent Enqueue and Dequeue calls;  *)
(*   Spec       one Engine.Run;                                            *)
(*   SpecPipe   the hooks, the fetch and Parse of single requests;         *)
(*   SpecConfig NewEngine, SetConcurrency and Run's start loops;           *)
(*   SpecStats  concurrent updateStats calls;                              *)
(*   SpecDownload  one Download call.                                      *)
(* Each specification leaves the variables of the others unchanged.        *)
(***************************************************************************)
EXTENDS Integers, Sequences, FiniteSets, TLC

VARIABLES
    \* ---- downloader: one batch call (SpecBatch)
    withContext,   \* TRUE: DownloadBatchWithContext, FALSE: DownloadBatch
    ctxDone,       \* the context has been cancelled
    db,            \* the batch: goroutines, resultChan, wg, closed
    dbRecv,        \* outcomes the caller has received from resultChan
    dbEnd,         \* the caller's range loop has seen the channel closed
    \* ---- schedulers (SpecSched)
    variant,       \* which Scheduler implementation is under test
    fifoQueue,     \* FIFOScheduler.queue
    lifoStack,     \* LIFOScheduler.stack
    pq,            \* PriorityScheduler.queue (the heap array)
    enqueued,      \* number of Enqueue calls made so far
    returned,      \* the tasks returned by successful Dequeue calls, in order
    lastReturn,    \* what the last Dequeue call returned: "nil" or "task"
    \* ---- ChannelScheduler (SpecSched and Spec)
    bufferSize,    \* the channel's capacity (NewChannelScheduler's argument)
    requestChan,   \* the buffered channel
    size,          \* the atomic size counter
    sendWaiting,   \* tasks held by detached sends blocked on requestChan
    sizeOwed,      \* goroutines that have sent but not yet added to size
    \* ---- engine (Spec)
    concurrency,   \* Engine.concurrency
    spider,        \* what Parse returns for a response, by task depth
    seeds,         \* number of tasks StartRequests returns
    hooks,         \* TRUE when a middleware that may drop is registered
    runPc,         \* where Engine.Run is
    workers,       \* the polling workers
    rwIdle,        \* result workers waiting on resultPool
    rwAdding,      \* result workers inside Enqueue, before the size add
    resultPool,    \* the shared result buffer
    poolClosed,    \* close(e.resultPool) has run
    poolSenders,   \* elements held by detached sends blocked on resultPool
    batches,       \* the running processBatchRequestsDirectly goroutines
    batchWg,       \* Engine.batchWg's counter
    stats,         \* Engine.stats
    panicked,      \* a goroutine panicked (the process is gone)
    emitted,       \* tasks seeded or returned by Parse so far
    yielded,       \* records returned by Parse so far
    spawned,       \* a detached send to resultPool has been started
    \* ---- one request pipeline (SpecPipe)
    pipePath,      \* "worker": processRequest, "batch": processBatchRequestsDirectly
    middlewares,   \* len(e.middlewares)
    pipeReqs,      \* number of requests put through the pipeline
    pipe,          \* where the pipeline is: stage, request, middleware, batch
    calls,         \* the calls made so far: hooks, Download, Parse
    \* ---- engine configuration (SpecConfig)
    eng,           \* the Engine fields NewEngine and SetConcurrency set
    engRun,        \* Run's start loops: goroutines started so far
    \* ---- statistics (SpecStats)
    mu,            \* Stats.mu: 0 when free, else the goroutine holding it
    counters,      \* the Stats counters
    callers,       \* the goroutines calling updateStats
    \* ---- one Download call (SpecDownload)
    dlReq,         \* the request and what the network will answer
    dlCall,        \* where Download is, and what it returned
    \* ---- one request from Enqueue to the end of its cycle (SpecTask)
    request,       \* the fields of the *request.Request
    taskRun,       \* where the request is, and its fields when enqueued
    \* ---- Run's pipelines (SpecOpen)
    plines,        \* e.pipelines: what Open and Close return, calls so far
    openRun,       \* where Run is, and what it returned
    \* ---- Run called again on the same Engine (SpecRerun)
    rerun          \* the Engine across the calls: resultPool, the run

batchVars == <<withContext, ctxDone, db, dbRecv, dbEnd>>
schedVars == <<variant, fifoQueue, lifoStack, pq, enqueued, returned,
               lastReturn>>
chanVars == <<bufferSize, requestChan, size, sendWaiting, sizeOwed>>
engineVars == <<concurrency, spider, seeds, hooks, runPc, workers, rwIdle,
                rwAdding, resultPool, poolClosed, poolSenders, batches,
                batchWg, stats, panicked, emitted, yielded, spawned>>
pipeVars == <<pipePath, middlewares, pipeReqs, pipe, calls>>
cfgVars == <<eng, engRun>>
statVars == <<mu, counters, callers>>
fetchVars == <<dlReq, dlCall>>
taskVars == <<request, taskRun>>
openVars == <<plines, openRun>>
rerunVars == <<rerun>>
cycleVars == <<taskVars, openVars, rerunVars>>
otherVars == <<cfgVars, statVars, fetchVars, cycleVars>>
vars == <<batchVars, schedVars, chanVars, engineVars, pipeVars, otherVars>>

(***************************************************************************)
(* Bounds of the model.                                                    *)
(***************************************************************************)
\* Largest number of requests handed to one standalone batch call.
MaxBatch == 3
\* Number of Enqueue calls made on the scheduler under test.
MaxEnqueue == 4
\* Largest task priority, and largest channel capacity, under test.
MaxPriority == 3
MaxBuffer == 2
\* Pipeline runs: how many middlewares are registered and how many
\* requests go through them.
MaxMiddlewares == 2
MaxPipeReqs == 2
\* Most elements in the result list a Parse of a pipeline run returns.
MaxPipeResults == 2
\* Goroutines calling updateStats at the same time when the statistics
\* alone are under test.
MaxCallers == 3
\* Longest redirect chain a server answers a fetch with when the
\* downloader alone is under test.
MaxChain == 12
\* Largest RetryTimes of a request, and RetryMiddleware's maxRetries, when
\* one request's cycle is under test.
MaxRetryTimes == 2
\* Most pipelines registered when Run's opening and closing of them is
\* under test.
MaxPipelines == 3
\* Most results the workers of one Run route to resultPool when repeated
\* runs are under test.
MaxRunResults == 2
\* Largest value SetConcurrency is called with when the configuration
\* alone is under test.
MaxSetConcurrency == 8
\* Engine runs: the values SetConcurrency is called with, the number of seed
\* tasks, how deep and how wide Parse fans out, how many records it yields.
MaxConcurrency == 2
MaxSeeds == 2
MaxDepth == 3
MaxFan == 2
MaxItems == 1
\* Largest number of tasks in a run (seeds and everything they fan out to).
MaxTasks == 5
\* The engine's sizes, scaled down so that full buffers are reached:
\* scheduler buffer (settings.Concurrency * 4 = 64 in NewEngine), result
\* buffer (settings.Concurrency * 8 = 128), result workers (16 / 2 = 8) and
\* the worker's maxEmptyCount (100).
QueueCap == 1
ResultPoolCap == 1
ResultWorkers == 2
maxEmptyCount == 2

----------------------------------------------------------------------------
(***************************************************************************)
(* Helpers.                                                                *)
(***************************************************************************)
\* s without its i-th element.
RemoveAt(s, i) == SubSeq(s, 1, i - 1) \o SubSeq(s, i + 1, Len(s))

\* n copies of x.
Copies(n, x) == [i \in 1..n |-> x]

----------------------------------------------------------------------------
(***************************************************************************)
(* The downloader's batch calls.                                           *)
(*                                                                         *)
(* A batch is a record                                                     *)
(*   reqs    the requests, in submission order;                            *)
(*   gpc     one goroutine per request: "start" (before the first select  *)
(*           of the context variant), "fetch" (calling Download), "send"   *)
(*           (Download has returned), "exit";                              *)
(*   got     what Download returned to a goroutine that has not yet sent;  *)
(*   ch      resultChan's buffer;  cap  its capacity;                      *)
(*   wg      the WaitGroup counter;  closed  close(resultChan) has run.    *)
(* An outcome (AsyncResult) is [idx, req, resp, err]: resp is TRUE for a   *)
(* non-nil Response, err is "nil", "fail" or "ctx".                        *)
(***************************************************************************)
AsyncResult(i, r, resp, err) == [idx |-> i, req |-> r, resp |-> resp, err |-> err]

\* A channel one slot short of the batch.
BatchChanCapShort(reqs) == Len(reqs) - 1
\* make(chan *AsyncResult, len(reqs))
BatchChanCap(reqs) == Len(reqs)

\* DownloadBatch up to its return: the channel, one goroutine per request
\* (each about to call Download), the closer goroutine waiting on wg.
DownloadBatch(reqs) ==
    [reqs |-> reqs,
     gpc |-> [i \in 1..Len(reqs) |-> "fetch"],
     got |-> [i \in 1..Len(reqs) |-> "none"],
     ch |-> <<>>,
     cap |-> BatchChanCap(reqs),
     wg |-> Len(reqs),
     closed |-> FALSE]

\* d.Download(r) returns in goroutine i: a response (ok) or an error.
GoDownload(b, i, ok) ==
    [b EXCEPT !.gpc[i] = "send", !.got[i] = IF ok THEN "resp" ELSE "fail"]

\* resultChan <- result, then the deferred wg.Done().
GoSend(b, i) ==
    [b EXCEPT !.ch = Append(@, AsyncResult(i, b.reqs[i], b.got[i] = "resp",
                                           IF b.got[i] = "resp" THEN "nil" ELSE "fail")),
              !.gpc[i] = "exit",
              !.got[i] = "none",
              !.wg = @ - 1]
CanSend(b) == Len(b.ch) < b.cap

\* The first select of DownloadBatchWithContext with ctx.Done() ready: the
\* goroutine sends a cancellation outcome and returns.
GoCancelled(b, i) ==
    [b EXCEPT !.ch = Append(@, AsyncResult(i, b.reqs[i], FALSE, "ctx")),
              !.gpc[i] = "exit",
              !.wg = @ - 1]

\* The second select of DownloadBatchWithContext taking its ctx.Done() case:
\* the result is discarded and the goroutine returns.
GoDiscard(b, i) == [b EXCEPT !.gpc[i] = "exit", !.got[i] = "none", !.wg = @ - 1]

\* The closer goroutine: wg.Wait() has returned, close(resultChan).
CloserReady(b) == b.wg = 0 /\ ~b.closed
CloserClose(b) == [b EXCEPT !.closed = TRUE]

\* The consumer's receive: the head of the buffer.
ChanRecv(b) == [b EXCEPT !.ch = Tail(@)]

\* Download calls in progress in a batch.
Fetching(b) == Cardinality({i \in 1..Len(b.reqs) : b.gpc[i] = "fetch"})

\* DownloadBatchWithContext up to its return: as DownloadBatch, each
\* goroutine before its first select.
DownloadBatchWithContext(reqs) ==
    [DownloadBatch(reqs) EXCEPT !.gpc = [i \in 1..Len(reqs) |-> "start"]]

\* How many outcomes of request i are in a sequence of outcomes.
CountFor(outs, i) == Cardinality({k \in 1..Len(outs) : outs[k].idx = i})

(***************************************************************************)
(* SpecBatch: one batch call over 1..MaxBatch requests and the caller's    *)
(* range loop over the returned channel.                                   *)
(***************************************************************************)
SchedIdle ==
    /\ variant = "none" /\ fifoQueue = <<>> /\ lifoStack = <<>> /\ pq = <<>>
    /\ enqueued = 0 /\ returned = <<>> /\ lastReturn = "none"
ChanIdle ==
    /\ bufferSize = 0
    /\ requestChan = <<>> /\ size = 0 /\ sendWaiting = <<>> /\ sizeOwed = 0
EngineIdle ==
    /\ concurrency = 0 /\ spider = <<>> /\ seeds = 0 /\ hooks = FALSE
    /\ runPc = "idle" /\ workers = <<>> /\ rwIdle = 0 /\ rwAdding = 0
    /\ resultPool = <<>> /\ poolClosed = FALSE /\ poolSenders = <<>>
    /\ batches = <<>> /\ batchWg = 0
    /\ stats = [total |-> 0, success |-> 0, failed |-> 0, items |-> 0]
    /\ panicked = FALSE /\ emitted = 0 /\ yielded = 0 /\ spawned = FALSE
BatchIdle ==
    /\ withContext = FALSE /\ ctxDone = FALSE /\ db = DownloadBatch(<<>>)
    /\ dbRecv = <<>> /\ dbEnd = FALSE
PipeIdle ==
    /\ pipePath = "none" /\ middlewares = 0 /\ pipeReqs = 0
    /\ pipe = [stage |-> "done", task |-> 0, mw |-> 0, valid |-> <<>>,
               dl |-> DownloadBatch(<<>>), todo |-> 0]
    /\ calls = <<>>
CfgIdle ==
    /\ eng = [concurrency |-> 0, settings |-> 0, workers |-> 0, resultWorkers |-> 0]
    /\ engRun = [pc |-> "none", resultStarted |-> 0, workersStarted |-> 0]
StatIdle ==
    /\ mu = 0
    /\ counters = [total |-> 0, success |-> 0, failed |-> 0, items |-> 0]
    /\ callers = <<>>
FetchIdle ==
    /\ dlReq = [proxy |-> "none", redirects |-> 0, fault |-> "none"]
    /\ dlCall = [pc |-> "none", via |-> 0, sent |-> 0, resp |-> FALSE, err |-> "nil"]
NoTask == [ua |-> FALSE, proxy |-> FALSE, hdr |-> FALSE, cookies |-> 0, retry |-> 0]
TaskIdle ==
    /\ request = NoTask
    /\ taskRun = [pc |-> "none", mw |-> 0, chain |-> <<>>, snap |-> NoTask,
                  jar |-> FALSE, retryable |-> FALSE]
OpenIdle ==
    /\ plines = <<>>
    /\ openRun = [pc |-> "none", i |-> 0, deferred |-> FALSE, err |-> FALSE,
                  started |-> FALSE]
RerunIdle ==
    rerun = [run |-> 0, pc |-> "none", closed |-> FALSE, pool |-> 0, rw |-> 0,
             det |-> 0, todo |-> 0, later |-> 0, handled |-> 0,
             panicked |-> FALSE]
CycleIdle == TaskIdle /\ OpenIdle /\ RerunIdle
OtherIdle == CfgIdle /\ StatIdle /\ FetchIdle /\ CycleIdle

InitBatch ==
    /\ withContext \in BOOLEAN
    /\ ctxDone = FALSE
    /\ \E n \in 1..MaxBatch :
          db = IF withContext THEN DownloadBatchWithContext([i \in 1..n |-> i])
                              ELSE DownloadBatch([i \in 1..n |-> i])
    /\ dbRecv = <<>>
    /\ dbEnd = FALSE
    /\ SchedIdle /\ ChanIdle /\ EngineIdle /\ PipeIdle /\ OtherIdle

\* The caller cancels the context.
BCancel ==
    /\ withContext /\ ~ctxDone
    /\ ctxDone' = TRUE
    /\ UNCHANGED <<withContext, db, dbRecv, dbEnd>>
    /\ UNCHANGED <<schedVars, chanVars, engineVars, pipeVars, otherVars>>

\* Goroutine i's first select: the ctx.Done() case when the context is
\* cancelled (a send of the cancellation outcome), else the default case.
BGoStart(i) ==
    /\ db.gpc[i] = "start"
    /\ IF ctxDone
         THEN CanSend(db) /\ db' = GoCancelled(db, i)
         ELSE db' = [db EXCEPT !.gpc[i] = "fetch"]
    /\ UNCHANGED <<withContext, ctxDone, dbRecv, dbEnd>>
    /\ UNCHANGED <<schedVars, chanVars, engineVars, pipeVars, otherVars>>

\* Download returns in goroutine i.
BGoDownload(i) ==
    /\ db.gpc[i] = "fetch"
    /\ \E ok \in BOOLEAN : db' = GoDownload(db, i, ok)
    /\ UNCHANGED <<withContext, ctxDone, dbRecv, dbEnd>>
    /\ UNCHANGED <<schedVars, chanVars, engineVars, pipeVars, otherVars>>

\* Goroutine i delivers its result: a plain send in DownloadBatch, the
\* second select in DownloadBatchWithContext (either ready case may run).
BGoSend(i) ==
    /\ db.gpc[i] = "send"
    /\ \/ CanSend(db) /\ db' = GoSend(db, i)
       \/ withContext /\ ctxDone /\ db' = GoDiscard(db, i)
    /\ UNCHANGED <<withContext, ctxDone, dbRecv, dbEnd>>
    /\ UNCHANGED <<schedVars, chanVars, engineVars, pipeVars, otherVars>>

\* The closer goroutine closes the channel.
BClose ==
    /\ CloserReady(db)
    /\ db' = CloserClose(db)
    /\ UNCHANGED <<withContext, ctxDone, dbRecv, dbEnd>>
    /\ UNCHANGED <<schedVars, chanVars, engineVars, pipeVars, otherVars>>

\* The caller receives one outcome.
BRecv ==
    /\ db.ch # <<>>
    /\ dbRecv' = Append(dbRecv, Head(db.ch))
    /\ db' = ChanRecv(db)
    /\ UNCHANGED <<withContext, ctxDone, dbEnd>>
    /\ UNCHANGED <<schedVars, chanVars, engineVars, pipeVars, otherVars>>

\* The caller's range loop ends: the channel is closed and drained.
BEnd ==
    /\ db.closed /\ db.ch = <<>> /\ ~dbEnd
    /\ dbEnd' = TRUE
    /\ UNCHANGED <<withContext, ctxDone, db, dbRecv>>
    /\ UNCHANGED <<schedVars, chanVars, engineVars, pipeVars, otherVars>>

NextBatch ==
    \/ BCancel
    \/ \E i \in 1..Len(db.reqs) : BGoStart(i)
    \/ \E i \in 1..Len(db.reqs) : BGoDownload(i)
    \/ \E i \in 1..Len(db.reqs) : BGoSend(i)
    \/ BClose
    \/ BRecv
    \/ BEnd

SpecBatch == InitBatch /\ [][NextBatch]_vars

\* Outcomes of request i delivered so far (received or still buffered).
Delivered(i) == CountFor(dbRecv \o db.ch, i)

\* C8: DownloadBatch over N requests delivers exactly one outcome per
\* request: never two, all N by the time the channel is closed, all N
\* received when the caller's loop ends; and a goroutine that has its result
\* always finds room in the channel, so it never blocks on the send.
C8_ExactlyOneOutcome ==
    ~withContext =>
        /\ \A i \in 1..Len(db.reqs) : Delivered(i) <= 1
        /\ db.closed => \A i \in 1..Len(db.reqs) : Delivered(i) = 1
        /\ dbEnd => Len(dbRecv) = Len(db.reqs)
        /\ \A i \in 1..Len(db.reqs) : db.gpc[i] = "send" => CanSend(db)

\* C8's case: a batch of MaxBatch requests with a failing and a succeeding
\* fetch has been consumed to the end.
C8_Witness ==
    /\ ~withContext /\ dbEnd /\ Len(dbRecv) = MaxBatch
    /\ \E j, k \in 1..Len(dbRecv) : dbRecv[j].err = "fail" /\ dbRecv[k].err = "nil"

\* C9: DownloadBatchWithContext has delivered exactly one outcome per request
\* by the time its channel is closed, whenever the context is cancelled.
C9_ExactlyOneOutcomeCtx ==
    (withContext /\ db.closed) => \A i \in 1..Len(db.reqs) : Delivered(i) = 1

----------------------------------------------------------------------------
(***************************************************************************)
(* The schedulers.  A task is [id, pri]: id names the instance, pri is     *)
(* Request.Priority.  FIFOScheduler, LIFOScheduler and PriorityScheduler   *)
(* hold their mutex for a whole call, so each call is one step.            *)
(***************************************************************************)
Task(id, pri) == [id |-> id, pri |-> pri]

\* FIFOScheduler: append; take queue[0], keep queue[1:].
FifoEnqueue(q, req) == Append(q, req)
\* A Dequeue that takes the newest task.
FifoFrontLast(q) == q[Len(q)]
FifoFront(q) == q[1]
\* A Dequeue that leaves the returned task in the queue.
FifoRestKept(q) == q
FifoRest(q) == SubSeq(q, 2, Len(q))
\* Size() and Empty() read len(s.queue).
FifoSize(q) == Len(q)
FifoEmpty(q) == Len(q) = 0

\* LIFOScheduler: append; take stack[len-1], keep stack[:len-1].
LifoEnqueue(st, req) == Append(st, req)
\* A Dequeue that takes the oldest task.
LifoTopFirst(st) == st[1]
LifoTop(st) == st[Len(st)]
\* A Dequeue that truncates the stack.
LifoRestEmptied(st) == <<>>
LifoRest(st) == SubSeq(st, 1, Len(st) - 1)
\* Size() and Empty() read len(s.stack).
LifoSize(st) == Len(st)
LifoEmpty(st) == Len(st) = 0

\* PriorityQueue of container/heap, 0-based positions i, j held at h[i + 1].
\* Less: the larger Priority comes first.
\* A Less that puts the smaller Priority first.
LessMin(h, i, j) == h[i + 1].pri < h[j + 1].pri
Less(h, i, j) == h[i + 1].pri > h[j + 1].pri
Swap(h, i, j) == [h EXCEPT ![i + 1] = h[j + 1], ![j + 1] = h[i + 1]]

\* heap.up(h, j)
RECURSIVE HeapUp(_, _)
HeapUp(h, j) ==
    LET i == (j - 1) \div 2 IN
    IF j = 0 \/ i = j \/ ~Less(h, j, i) THEN h ELSE HeapUp(Swap(h, i, j), i)

\* heap.down(h, i0, n)
RECURSIVE HeapDown(_, _, _)
HeapDown(h, i, n) ==
    LET j1 == 2 * i + 1
        j2 == j1 + 1
        j == IF j2 < n /\ Less(h, j2, j1) THEN j2 ELSE j1
    IN  IF j1 >= n THEN h
        ELSE IF ~Less(h, j, i) THEN h
        ELSE HeapDown(Swap(h, i, j), j, n)

\* heap.Push: PriorityQueue.Push appends, then up(Len - 1).
HeapPush(h, item) == HeapUp(Append(h, item), Len(h))

\* heap.Pop: Swap(0, n), down(0, n) with n = Len - 1, then PriorityQueue.Pop
\* takes the last element off.
HeapPopped(h) ==
    LET n == Len(h) - 1 IN HeapDown(Swap(h, 0, n), 0, n)
HeapPopItem(h) == HeapPopped(h)[Len(h)]
HeapPopRest(h) == SubSeq(HeapPopped(h), 1, Len(h) - 1)
\* Size() and Empty() read s.queue.Len().
PrioritySize(h) == Len(h)
PriorityEmpty(h) == Len(h) = 0

\* ChannelScheduler.  Enqueue's select: the send case when the buffer has
\* room, else the default case, which starts a detached send.
ChanHasRoom(ch, cap) == Len(ch) < cap
\* A send that loses the task.
ChanSendLost(ch, req) == ch
ChanSend(ch, req) == Append(ch, req)
\* Dequeue's select: the receive case takes the head of the buffer.
ChanFront(ch) == ch[1]
\* A receive that leaves the task in the buffer.
ChanRestKept(ch) == ch
ChanRest(ch) == SubSeq(ch, 2, Len(ch))
\* Empty(): the size counter reads zero.
ChanEmpty(sz) == sz = 0
\* Size(): the size counter.
ChanSize(sz) == sz

(***************************************************************************)
(* SpecSched: one scheduler, MaxEnqueue Enqueue calls with fresh tasks and *)
(* any number of Dequeue calls, from concurrent callers.                   *)
(***************************************************************************)
Variants == {"fifo", "lifo", "priority", "channel"}

InitSched ==
    /\ variant \in Variants
    /\ fifoQueue = <<>> /\ lifoStack = <<>> /\ pq = <<>>
    /\ enqueued = 0 /\ returned = <<>> /\ lastReturn = "none"
    /\ bufferSize \in (IF variant = "channel" THEN 1..MaxBuffer ELSE {0})
    /\ requestChan = <<>> /\ size = 0 /\ sendWaiting = <<>> /\ sizeOwed = 0
    /\ BatchIdle /\ EngineIdle /\ PipeIdle /\ OtherIdle

\* The task of the next Enqueue call.
NextTasks ==
    {Task(enqueued + 1, p) : p \in (IF variant = "priority" THEN 1..MaxPriority ELSE {0})}

FIFOEnqueue ==
    /\ variant = "fifo" /\ enqueued < MaxEnqueue
    /\ \E req \in NextTasks : fifoQueue' = FifoEnqueue(fifoQueue, req)
    /\ enqueued' = enqueued + 1
    /\ UNCHANGED <<variant, lifoStack, pq, returned, lastReturn>>
    /\ UNCHANGED <<batchVars, chanVars, engineVars, pipeVars, otherVars>>

\* Dequeue on an empty queue returns nil and changes nothing.
FIFODequeue ==
    /\ variant = "fifo"
    /\ IF Len(fifoQueue) = 0
         THEN /\ lastReturn' = "nil"
              /\ UNCHANGED <<fifoQueue, returned>>
         ELSE /\ lastReturn' = "task"
              /\ returned' = Append(returned, FifoFront(fifoQueue))
              /\ fifoQueue' = FifoRest(fifoQueue)
    /\ UNCHANGED <<variant, lifoStack, pq, enqueued>>
    /\ UNCHANGED <<batchVars, chanVars, engineVars, pipeVars, otherVars>>

LIFOEnqueue ==
    /\ variant = "lifo" /\ enqueued < MaxEnqueue
    /\ \E req \in NextTasks : lifoStack' = LifoEnqueue(lifoStack, req)
    /\ enqueued' = enqueued + 1
    /\ UNCHANGED <<variant, fifoQueue, pq, returned, lastReturn>>
    /\ UNCHANGED <<batchVars, chanVars, engineVars, pipeVars, otherVars>>

LIFODequeue ==
    /\ variant = "lifo"
    /\ IF Len(lifoStack) = 0
         THEN /\ lastReturn' = "nil"
              /\ UNCHANGED <<lifoStack, returned>>
         ELSE /\ lastReturn' = "task"
              /\ returned' = Append(returned, LifoTop(lifoStack))
              /\ lifoStack' = LifoRest(lifoStack)
    /\ UNCHANGED <<variant, fifoQueue, pq, enqueued>>
    /\ UNCHANGED <<batchVars, chanVars, engineVars, pipeVars, otherVars>>

PriorityEnqueue ==
    /\ variant = "priority" /\ enqueued < MaxEnqueue
    /\ \E req \in NextTasks : pq' = HeapPush(pq, req)
    /\ enqueued' = enqueued + 1
    /\ UNCHANGED <<variant, fifoQueue, lifoStack, returned, lastReturn>>
    /\ UNCHANGED <<batchVars, chanVars, engineVars, pipeVars, otherVars>>

PriorityDequeue ==
    /\ variant = "priority"
    /\ IF Len(pq) = 0
         THEN /\ lastReturn' = "nil"
              /\ UNCHANGED <<pq, returned>>
         ELSE /\ lastReturn' = "task"
              /\ returned' = Append(returned, HeapPopItem(pq))
              /\ pq' = HeapPopRest(pq)
    /\ UNCHANGED <<variant, fifoQueue, lifoStack, enqueued>>
    /\ UNCHANGED <<batchVars, chanVars, engineVars, pipeVars, otherVars>>

\* ChannelScheduler.Enqueue up to its return: the send (the size add is the
\* caller's next step, ChannelSizeAdd) or the start of a detached send.
ChannelEnqueue ==
    /\ variant = "channel" /\ enqueued < MaxEnqueue
    /\ \E req \in NextTasks :
         IF ChanHasRoom(requestChan, bufferSize)
           THEN /\ requestChan' = ChanSend(requestChan, req)
                /\ sizeOwed' = sizeOwed + 1
                /\ UNCHANGED sendWaiting
           ELSE /\ sendWaiting' = Append(sendWaiting, req)
                /\ UNCHANGED <<requestChan, sizeOwed>>
    /\ enqueued' = enqueued + 1
    /\ UNCHANGED <<bufferSize, size>>
    /\ UNCHANGED <<variant, fifoQueue, lifoStack, pq, returned, lastReturn>>
    /\ UNCHANGED <<batchVars, engineVars, pipeVars, otherVars>>

\* A detached send gets its task into the channel.
ChannelDetachedSend ==
    /\ variant = "channel"
    /\ ChanHasRoom(requestChan, bufferSize)
    /\ \E i \in 1..Len(sendWaiting) :
         /\ requestChan' = ChanSend(requestChan, sendWaiting[i])
         /\ sendWaiting' = RemoveAt(sendWaiting, i)
    /\ sizeOwed' = sizeOwed + 1
    /\ UNCHANGED <<bufferSize, size>>
    /\ UNCHANGED <<schedVars, batchVars, engineVars, pipeVars, otherVars>>

\* atomic.AddInt64(&s.size, 1), after a send.
ChannelSizeAdd ==
    /\ variant = "channel"
    /\ sizeOwed > 0
    /\ size' = size + 1
    /\ sizeOwed' = sizeOwed - 1
    /\ UNCHANGED <<bufferSize, requestChan, sendWaiting>>
    /\ UNCHANGED <<schedVars, batchVars, engineVars, pipeVars, otherVars>>

\* A Dequeue whose receive has no default case: it waits for a task.
ChannelDequeueBlocking ==
    /\ variant = "channel"
    /\ Len(requestChan) > 0
    /\ lastReturn' = "task"
    /\ returned' = Append(returned, ChanFront(requestChan))
    /\ requestChan' = ChanRest(requestChan)
    /\ size' = size - 1
    /\ UNCHANGED <<bufferSize, sendWaiting, sizeOwed>>
    /\ UNCHANGED <<variant, fifoQueue, lifoStack, pq, enqueued>>
    /\ UNCHANGED <<batchVars, engineVars, pipeVars, otherVars>>

\* ChannelScheduler.Dequeue: the receive and the size decrement, or nil.
ChannelDequeue ==
    /\ variant = "channel"
    /\ IF Len(requestChan) = 0
         THEN /\ lastReturn' = "nil"
              /\ UNCHANGED <<requestChan, size, returned>>
         ELSE /\ lastReturn' = "task"
              /\ returned' = Append(returned, ChanFront(requestChan))
              /\ requestChan' = ChanRest(requestChan)
              /\ size' = size - 1
    /\ UNCHANGED <<bufferSize, sendWaiting, sizeOwed>>
    /\ UNCHANGED <<variant, fifoQueue, lifoStack, pq, enqueued>>
    /\ UNCHANGED <<batchVars, engineVars, pipeVars, otherVars>>

NextSched ==
    \/ FIFOEnqueue
    \/ FIFODequeue
    \/ LIFOEnqueue
    \/ LIFODequeue
    \/ PriorityEnqueue
    \/ PriorityDequeue
    \/ ChannelEnqueue
    \/ ChannelDetachedSend
    \/ ChannelSizeAdd
    \/ ChannelDequeue

SpecSched == InitSched /\ [][NextSched]_vars

\* The same with the goroutines scheduled: a detached send that can
\* proceed does, and the consumers keep calling Dequeue.
SpecSchedLive ==
    /\ SpecSched
    /\ WF_vars(ChannelDetachedSend)
    /\ WF_vars(ChannelDequeue)

\* C10: for every scheduler variant and every interleaving of Enqueue and
\* Dequeue calls, no task instance is returned by two Dequeue calls, and
\* what a Dequeue returns is a task that was enqueued.
C10_TaskOwnership ==
    /\ \A j, k \in 1..Len(returned) : returned[j].id = returned[k].id => j = k
    /\ \A j \in 1..Len(returned) : returned[j].id \in 1..enqueued

\* C10's case: the channel scheduler has overflowed into a detached send
\* and every enqueued task has been returned, one of them overtaken.
C10_Witness ==
    /\ variant = "channel"
    /\ Len(returned) = MaxEnqueue
    /\ \E j \in 1..(Len(returned) - 1) : returned[j].id > returned[j + 1].id

\* The calls of the scheduler under test, and the tasks it holds: in the
\* queue, the stack, the heap, the channel or a detached send.
EnqueueCall == FIFOEnqueue \/ LIFOEnqueue \/ PriorityEnqueue \/ ChannelEnqueue
DequeueCall == FIFODequeue \/ LIFODequeue \/ PriorityDequeue \/ ChannelDequeue
Held == fifoQueue \o lifoStack \o pq \o requestChan \o sendWaiting
HeldIds == {Held[i].id : i \in 1..Len(Held)}
\* The tasks in the scheduler's own store (detached sends left out).
Stored == fifoQueue \o lifoStack \o pq \o requestChan

\* C11: for every variant an Enqueue call can always be made and returns
\* in one step with the task accepted (held by the scheduler afterwards);
\* for the ChannelScheduler also when the buffer is full, where the task
\* is held by a detached send.
C11_EnqueueNeverBlocks ==
    /\ [](enqueued < MaxEnqueue => ENABLED EnqueueCall)
    /\ [][EnqueueCall =>
            /\ (enqueued + 1) \in HeldIds'
            /\ Len(Held') = Len(Held) + 1
            /\ (variant = "channel" /\ ~ChanHasRoom(requestChan, bufferSize)
                  => /\ Len(sendWaiting') = Len(sendWaiting) + 1
                     /\ requestChan' = requestChan)]_vars

\* C11's case: the ChannelScheduler took an Enqueue with its buffer full.
C11_Witness ==
    /\ variant = "channel"
    /\ Len(requestChan) = bufferSize
    /\ sendWaiting # <<>>

\* C12: for every variant a Dequeue call can always be made, and on an
\* empty queue it returns nil in one step and leaves the queue contents,
\* Size() and the tasks returned so far unchanged.
C12_DequeueOnEmpty ==
    /\ []ENABLED DequeueCall
    /\ [][(DequeueCall /\ Stored = <<>>) =>
            /\ lastReturn' = "nil"
            /\ UNCHANGED <<fifoQueue, lifoStack, pq, requestChan, sendWaiting,
                           size, sizeOwed, returned, enqueued>>]_vars

\* C12's case: a Dequeue has returned nil from a queue that had held tasks
\* and is empty again.
C12_Witness ==
    /\ lastReturn = "nil"
    /\ Stored = <<>>
    /\ returned # <<>>

\* C13: for FIFO, LIFO and Priority, after N Enqueue calls and M successful
\* Dequeue calls, Size() is N - M and Empty() is true exactly when N = M.
SizeOf ==
    IF variant = "fifo" THEN FifoSize(fifoQueue)
    ELSE IF variant = "lifo" THEN LifoSize(lifoStack)
    ELSE PrioritySize(pq)
EmptyOf ==
    IF variant = "fifo" THEN FifoEmpty(fifoQueue)
    ELSE IF variant = "lifo" THEN LifoEmpty(lifoStack)
    ELSE PriorityEmpty(pq)
C13_SizeExact ==
    variant \in {"fifo", "lifo", "priority"} =>
        /\ SizeOf = enqueued - Len(returned)
        /\ EmptyOf <=> (enqueued = Len(returned))

\* C13's case: enqueues and dequeues have alternated on a locked variant,
\* with tasks both returned and left.
C13_Witness ==
    /\ variant = "lifo"
    /\ enqueued = MaxEnqueue
    /\ Len(returned) >= 1
    /\ SizeOf >= 2
    /\ returned[1].id < enqueued - 1

\* C14: for the ChannelScheduler, once the calls have stopped and every
\* step its goroutines can still take has been taken (no size add owed, no
\* detached send able to proceed), Size() is N - M.
C14_SizeSettles ==
    (variant = "channel" /\ sizeOwed = 0 /\ ~ENABLED ChannelDetachedSend) =>
        ChanSize(size) = enqueued - Len(returned)

\* C15: the FIFOScheduler returns tasks in exactly the order they were
\* enqueued, under any interleaving of Enqueue and Dequeue calls (task ids
\* number the Enqueue calls).
C15_FifoOrder ==
    variant = "fifo" => \A j \in 1..Len(returned) : returned[j].id = j

\* C15's case: T1..Tn enqueued and all of them dequeued.
C15_Witness ==
    /\ variant = "fifo"
    /\ Len(returned) = MaxEnqueue
    /\ lastReturn = "task"

\* The ids of the tasks enqueued and not yet dequeued.
Outstanding == (1..enqueued) \ {returned[j].id : j \in 1..Len(returned)}

\* C16: every successful Dequeue of the LIFOScheduler returns the most
\* recently enqueued task among those not yet dequeued.
C16_LifoOrder ==
    [][(LIFODequeue /\ lifoStack # <<>>) =>
          /\ Len(returned') = Len(returned) + 1
          /\ \A id \in Outstanding : returned'[Len(returned')].id >= id]_vars

\* C16's case: dequeues interleaved with enqueues, so that the order
\* returned is neither the enqueue order nor its reverse.
C16_Witness ==
    /\ variant = "lifo"
    /\ Len(returned) = MaxEnqueue
    /\ \E j \in 1..(Len(returned) - 1) : returned[j].id < returned[j + 1].id
    /\ \E j \in 1..(Len(returned) - 1) : returned[j].id > returned[j + 1].id

\* C17: every successful Dequeue of the PriorityScheduler returns a task
\* whose priority is at least that of every task still in the queue.
C17_PriorityOrder ==
    [][(PriorityDequeue /\ pq # <<>>) =>
          /\ Len(returned') = Len(returned) + 1
          /\ \A i \in 1..Len(pq') :
                returned'[Len(returned')].pri >= pq'[i].pri]_vars

\* C17's case: priorities enqueued out of order (a lower one first) and
\* served highest first, as in [1, 5, 3] served 5, 3, 1.
C17_Witness ==
    /\ variant = "priority"
    /\ Len(returned) >= 3
    /\ returned[1].pri > returned[2].pri
    /\ returned[2].pri > returned[3].pri
    /\ returned[3].id < returned[1].id
    /\ returned[2].id > returned[1].id

\* C32: under concurrent Enqueue and Dequeue calls the ChannelScheduler's
\* size counter, and so Size(), is never below 0.
C32_SizeNonNegative ==
    variant = "channel" => ChanSize(size) >= 0

\* C33: whenever the ChannelScheduler's Empty() is true, the scheduler holds
\* no task, neither in the channel buffer nor in a detached send.
C33_EmptyMeansNoTask ==
    (variant = "channel" /\ ChanEmpty(size)) =>
        (requestChan = <<>> /\ sendWaiting = <<>>)

\* The tasks the ChannelScheduler has been given and their whereabouts.
ChanAll == returned \o requestChan \o sendWaiting
WaitingIds == {sendWaiting[i].id : i \in 1..Len(sendWaiting)}
ReturnedIds == {returned[j].id : j \in 1..Len(returned)}

\* C34: the ChannelScheduler neither loses nor duplicates a task: the tasks
\* passed to Enqueue are, each exactly once, among those returned by
\* Dequeue, those in the channel buffer and those held by detached sends;
\* and while the consumers keep calling Dequeue, every task held by a
\* detached send is eventually returned.
C34_NoLossNoDuplicate ==
    /\ [](variant = "channel" =>
            /\ Len(ChanAll) = enqueued
            /\ {ChanAll[i].id : i \in 1..Len(ChanAll)} = 1..enqueued)
    /\ \A id \in 1..MaxEnqueue :
          (variant = "channel" /\ id \in WaitingIds) ~> (id \in ReturnedIds)

\* C34's case: tasks in all three places at once: returned, in the buffer
\* and in a detached send.
C34_Witness ==
    /\ variant = "channel"
    /\ returned # <<>> /\ requestChan # <<>> /\ Len(sendWaiting) >= 2

----------------------------------------------------------------------------
(***************************************************************************)
(* The engine.  A task is Req(d), d its depth below a seed (seeds have     *)
(* depth 1); a record is Item.  The spider is a table: Parse of a response *)
(* to a task of depth d returns spider[d].reqs tasks of depth d + 1 and    *)
(* spider[d].items records.                                                *)
(***************************************************************************)
Req(d) == [t |-> "req", d |-> d]
Item == [t |-> "item", d |-> 0]

\* s.Parse(resp)
Parse(d) == Copies(spider[d].reqs, Req(d + 1)) \o Copies(spider[d].items, Item)

\* The partition loop of processResultsConcurrently.
Requests(results) == SelectSeq(results, LAMBDA r : r.t = "req")
Items(results) == SelectSeq(results, LAMBDA r : r.t = "item")

\* processResultsConcurrently's choice of path: more than one request goes
\* to a batch goroutine, the rest is sent to resultPool element by element.
\* A choice of path that never takes the batch branch.
UseBatchNever(results) == FALSE
UseBatch(results) == Len(Requests(results)) > 1
BatchOf(results) == IF UseBatch(results) THEN Requests(results) ELSE <<>>
\* A routing that sends the batched requests to resultPool as well.
PoolBoundAll(results) == Requests(results) \o Items(results)
PoolBound(results) ==
    (IF UseBatch(results) THEN <<>> ELSE Requests(results)) \o Items(results)

\* A detached goroutine is one of a bag: the bag is kept as a sequence
\* ordered by depth, so that equal bags are equal sequences.
RECURSIVE BagAdd(_, _)
BagAdd(s, e) ==
    IF s = <<>> THEN <<e>>
    ELSE IF e.d <= s[1].d THEN <<e>> \o s
    ELSE <<s[1]>> \o BagAdd(Tail(s), e)

\* The batch goroutine started by processResultsConcurrently, before
\* processBatchRequestsDirectly's first statement.
NewBatchGoroutine(reqs) ==
    [pc |-> "pre", reqs |-> reqs, dl |-> DownloadBatch(<<>>), todo |-> <<>>]

\* A launch that does not count the goroutine.
BatchWgAddNone(n) == n
\* e.batchWg.Add(1), the statement before `go`.
BatchWgAdd(n) == n + 1

\* A polling worker at the top of its loop.
NewWorker == [pc |-> "poll", emptyCount |-> 0, req |-> 0, todo |-> <<>>]

\* Download calls in progress: polling workers inside Download plus the
\* goroutines of every running batch download.
RECURSIVE BatchFetches(_)
BatchFetches(bs) ==
    IF bs = <<>> THEN 0
    ELSE (IF bs[1].pc = "pre" THEN 0 ELSE Fetching(bs[1].dl)) + BatchFetches(Tail(bs))
FetchesInProgress ==
    Cardinality({w \in 1..Len(workers) : workers[w].pc = "download"})
        + BatchFetches(batches)

\* An update that counts each call twice.
updateStatsTwice(st, key, value) == [st EXCEPT ![key] = @ + 2 * value]
\* updateStats(key, value)
updateStats(st, key, value) == [st EXCEPT ![key] = @ + value]

\* The middleware loops: without a dropping middleware the request (or the
\* response) always passes; with one it passes or is dropped.
HookVerdicts == IF hooks THEN {"pass", "drop"} ELSE {"pass"}

(***************************************************************************)
(* Spec: NewEngine, SetConcurrency(n), one registered spider, and Run.     *)
(***************************************************************************)
Spiders ==
    {sp \in [1..MaxDepth -> [reqs : 0..MaxFan, items : 0..MaxItems]] :
        sp[MaxDepth].reqs = 0}

\* The tasks a run fetches when nothing fails or is dropped: a task of
\* depth d and everything below it.
RECURSIVE TreeSize(_, _)
TreeSize(sp, d) ==
    IF d > MaxDepth THEN 0 ELSE 1 + sp[d].reqs * TreeSize(sp, d + 1)

\* A run in which a batch's responses are parsed into batches again: one
\* seed, one worker, MaxFan requests from each of the first two levels.
NestedRun ==
    /\ seeds = 1 /\ concurrency = 1 /\ ~hooks
    /\ \A d \in 1..2 : spider[d] = [reqs |-> MaxFan, items |-> 0]

Init ==
    /\ concurrency \in 0..MaxConcurrency
    /\ spider \in Spiders
    /\ seeds \in 1..MaxSeeds
    /\ hooks \in BOOLEAN
    /\ seeds * TreeSize(spider, 1) <= MaxTasks \/ NestedRun
    /\ runPc = "idle"
    /\ workers = <<>> /\ rwIdle = 0 /\ rwAdding = 0
    /\ resultPool = <<>> /\ poolClosed = FALSE /\ poolSenders = <<>>
    /\ batches = <<>> /\ batchWg = 0
    /\ stats = [total |-> 0, success |-> 0, failed |-> 0, items |-> 0]
    /\ panicked = FALSE /\ emitted = 0 /\ yielded = 0 /\ spawned = FALSE
    /\ bufferSize = QueueCap
    /\ requestChan = <<>> /\ size = 0 /\ sendWaiting = <<>> /\ sizeOwed = 0
    /\ BatchIdle /\ SchedIdle /\ PipeIdle /\ OtherIdle

\* No goroutine has panicked; and, for the goroutines Run starts, Run has
\* not returned (the caller, runSpider, returns and the process exits).
Alive == ~panicked
Running == Alive /\ runPc # "done"

\* A start loop that runs once more than e.concurrency.
StartWorkersExtra == Copies(concurrency + 1, NewWorker)
\* Run's loop over i < e.concurrency: wg.Add(1), go e.worker.
StartWorkers == Copies(concurrency, NewWorker)

\* Run up to wg.Wait(): the seeds are enqueued one after the other (those
\* beyond the buffer start detached sends), then the result workers and
\* the polling workers are started.
RunStart ==
    /\ Alive /\ runPc = "idle"
    /\ LET fit == IF seeds <= bufferSize THEN seeds ELSE bufferSize IN
         /\ requestChan' = Copies(fit, Req(1))
         /\ size' = fit
         /\ sendWaiting' = Copies(seeds - fit, Req(1))
    /\ emitted' = seeds
    /\ rwIdle' = ResultWorkers
    /\ workers' = StartWorkers
    /\ runPc' = "waitWorkers"
    /\ UNCHANGED <<bufferSize, sizeOwed>>
    /\ UNCHANGED <<concurrency, spider, seeds, hooks, rwAdding, resultPool,
                   poolClosed, poolSenders, batches, batchWg, stats, panicked,
                   yielded, spawned>>
    /\ UNCHANGED <<batchVars, schedVars, pipeVars, otherVars>>

\* One iteration of the select in processResultsConcurrently: the send when
\* resultPool has room, else the default case, which starts a detached
\* send.  A send on a closed channel panics.
PoolHasRoom(pool) == Len(pool) < ResultPoolCap
PoolOffer(e) ==
    IF poolClosed
      THEN /\ panicked' = TRUE
           /\ UNCHANGED <<resultPool, poolSenders, spawned>>
      ELSE IF PoolHasRoom(resultPool)
        THEN /\ resultPool' = Append(resultPool, e)
             /\ UNCHANGED <<poolSenders, spawned, panicked>>
        ELSE /\ poolSenders' = BagAdd(poolSenders, e)
             /\ spawned' = TRUE
             /\ UNCHANGED <<resultPool, panicked>>

\* An emptyCount test that gives up at the first empty poll.
WorkerGivesUpAtOnce(count) == count >= 1

\* The worker's emptyCount test: exit at maxEmptyCount consecutive polls.
WorkerGivesUp(count) == count >= maxEmptyCount

\* worker, one iteration of the loop up to Download.  Dequeue returns a
\* request: emptyCount is reset and processRequest counts the request and
\* runs the ProcessRequest loop, which may drop it.  Dequeue returns nil:
\* Empty() decides between counting the poll (and returning at
\* maxEmptyCount) and resetting the count.
WorkerPoll(w) ==
    /\ Running /\ workers[w].pc = "poll"
    /\ IF Len(requestChan) = 0
         THEN /\ workers' =
                   IF ChanEmpty(size)
                     THEN IF WorkerGivesUp(workers[w].emptyCount + 1)
                            THEN [workers EXCEPT ![w].pc = "exited", ![w].emptyCount = 0]
                            ELSE [workers EXCEPT ![w].emptyCount = @ + 1]
                     ELSE [workers EXCEPT ![w].emptyCount = 0]
              /\ UNCHANGED <<requestChan, size, stats>>
         ELSE /\ requestChan' = ChanRest(requestChan)
              /\ size' = size - 1
              /\ stats' = updateStats(stats, "total", 1)
              /\ \E v \in HookVerdicts :
                   workers' =
                     IF v = "drop"
                       THEN [workers EXCEPT ![w].emptyCount = 0]
                       ELSE [workers EXCEPT ![w].pc = "download",
                                            ![w].emptyCount = 0,
                                            ![w].req = ChanFront(requestChan).d]
    /\ UNCHANGED <<concurrency, spider, seeds, hooks, runPc, rwIdle, rwAdding,
                 resultPool, poolClosed, poolSenders, batches, batchWg,
                 panicked, emitted, yielded, spawned, bufferSize, sendWaiting,
                 sizeOwed>>
    /\ UNCHANGED <<batchVars, schedVars, pipeVars, otherVars>>

\* processRequest from Download's return: a failure ends the cycle; a
\* success is counted, passed through the ProcessResponse loop (which may
\* drop it), parsed, and processResultsConcurrently starts: a batch
\* goroutine for more than one request, the rest left to route.
WorkerDownload(w) ==
    /\ Running /\ workers[w].pc = "download"
    /\ \/ /\ stats' = updateStats(stats, "failed", 1)
          /\ workers' = [workers EXCEPT ![w].pc = "poll", ![w].req = 0]
          /\ UNCHANGED <<batches, batchWg, emitted, yielded>>
       \/ /\ stats' = updateStats(stats, "success", 1)
          /\ \E v \in HookVerdicts :
               IF v = "drop"
                 THEN /\ workers' = [workers EXCEPT ![w].pc = "poll", ![w].req = 0]
                      /\ UNCHANGED <<batches, batchWg, emitted, yielded>>
                 ELSE LET results == Parse(workers[w].req)
                          todo == PoolBound(results)
                      IN  /\ workers' = [workers EXCEPT
                                ![w].pc = IF todo = <<>> THEN "poll" ELSE "route",
                                ![w].req = 0,
                                ![w].todo = todo]
                          /\ emitted' = emitted + Len(Requests(results))
                          /\ yielded' = yielded + Len(Items(results))
                          /\ IF UseBatch(results)
                               THEN /\ batchWg' = BatchWgAdd(batchWg)
                                    /\ batches' = Append(batches,
                                           NewBatchGoroutine(BatchOf(results)))
                               ELSE UNCHANGED <<batches, batchWg>>
    /\ UNCHANGED <<concurrency, spider, seeds, hooks, runPc, rwIdle, rwAdding,
                 resultPool, poolClosed, poolSenders, panicked, spawned,
                 bufferSize, requestChan, size, sendWaiting, sizeOwed>>
    /\ UNCHANGED <<batchVars, schedVars, pipeVars, otherVars>>

\* processResultsConcurrently, one element of the send loops.
WorkerRoute(w) ==
    /\ Running /\ workers[w].pc = "route"
    /\ PoolOffer(Head(workers[w].todo))
    /\ workers' = [workers EXCEPT
           ![w].todo = Tail(@),
           ![w].pc = IF Len(workers[w].todo) = 1 THEN "poll" ELSE "route"]
    /\ UNCHANGED <<concurrency, spider, seeds, hooks, runPc, rwIdle, rwAdding,
                 poolClosed, batches, batchWg, stats, emitted, yielded,
                 bufferSize, requestChan, size, sendWaiting, sizeOwed>>
    /\ UNCHANGED <<batchVars, schedVars, pipeVars, otherVars>>

\* The requests at the positions of keep, in order.
KeepReqs(reqs, keep) ==
    LET F[i \in 0..Len(reqs)] ==
            IF i = 0 THEN <<>>
            ELSE IF i \in keep THEN Append(F[i - 1], reqs[i]) ELSE F[i - 1]
    IN  F[Len(reqs)]

\* What the ProcessRequest loops of a batch may let through.
Keeps(reqs) ==
    IF hooks THEN SUBSET (1..Len(reqs)) ELSE {1..Len(reqs)}

\* processBatchRequestsDirectly up to DownloadBatch's return: request_total
\* and the ProcessRequest loop for every request; with no request left the
\* goroutine returns (batchWg.Done), else DownloadBatch starts the fetches.
BatchStart(k) ==
    /\ Running /\ batches[k].pc = "pre"
    /\ stats' = updateStats(stats, "total", Len(batches[k].reqs))
    /\ \E keep \in Keeps(batches[k].reqs) :
         LET validReqs == KeepReqs(batches[k].reqs, keep) IN
         IF Len(validReqs) = 0
           THEN /\ batches' = RemoveAt(batches, k)
                /\ batchWg' = batchWg - 1
           ELSE /\ batches' = [batches EXCEPT ![k].pc = "loop",
                                              ![k].reqs = validReqs,
                                              ![k].dl = DownloadBatch(validReqs)]
                /\ UNCHANGED batchWg
    /\ UNCHANGED <<concurrency, spider, seeds, hooks, runPc, workers, rwIdle,
                 rwAdding, resultPool, poolClosed, poolSenders, panicked,
                 emitted, yielded, spawned, bufferSize, requestChan, size,
                 sendWaiting, sizeOwed>>
    /\ UNCHANGED <<batchVars, schedVars, pipeVars, otherVars>>

\* A goroutine of DownloadBatch: Download returns and the result is sent.
BatchFetch(k, i) ==
    /\ Running /\ batches[k].pc # "pre"
    /\ batches[k].dl.gpc[i] = "fetch"
    /\ CanSend(batches[k].dl)
    /\ \E ok \in BOOLEAN :
         batches' = [batches EXCEPT ![k].dl = GoSend(GoDownload(@, i, ok), i)]
    /\ UNCHANGED <<concurrency, spider, seeds, hooks, runPc, workers, rwIdle,
                 rwAdding, resultPool, poolClosed, poolSenders, batchWg,
                 stats, panicked, emitted, yielded, spawned, bufferSize,
                 requestChan, size, sendWaiting, sizeOwed>>
    /\ UNCHANGED <<batchVars, schedVars, pipeVars, otherVars>>

\* The closer goroutine of DownloadBatch.
BatchClose(k) ==
    /\ Running /\ batches[k].pc # "pre"
    /\ CloserReady(batches[k].dl)
    /\ batches' = [batches EXCEPT ![k].dl = CloserClose(@)]
    /\ UNCHANGED <<concurrency, spider, seeds, hooks, runPc, workers, rwIdle,
                 rwAdding, resultPool, poolClosed, poolSenders, batchWg,
                 stats, panicked, emitted, yielded, spawned, bufferSize,
                 requestChan, size, sendWaiting, sizeOwed>>
    /\ UNCHANGED <<batchVars, schedVars, pipeVars, otherVars>>

\* processBatchRequestsDirectly, one iteration of the range loop up to the
\* start of processResultsConcurrently.
BatchRecv(k) ==
    /\ Running /\ batches[k].pc = "loop"
    /\ batches[k].dl.ch # <<>>
    /\ LET out == Head(batches[k].dl.ch)
           rest == [batches EXCEPT ![k].dl = ChanRecv(@)]
       IN  IF out.err # "nil" \/ ~out.resp
             THEN /\ stats' = updateStats(stats, "failed", 1)
                  /\ batches' = rest
                  /\ UNCHANGED <<batchWg, emitted, yielded>>
             ELSE /\ stats' = updateStats(stats, "success", 1)
                  /\ \E v \in HookVerdicts :
                       IF v = "drop"
                         THEN /\ batches' = rest
                              /\ UNCHANGED <<batchWg, emitted, yielded>>
                         ELSE LET results == Parse(out.req.d)
                                  todo == PoolBound(results)
                                  mine == [rest EXCEPT
                                      ![k].pc = IF todo = <<>> THEN "loop" ELSE "route",
                                      ![k].todo = todo]
                              IN  /\ emitted' = emitted + Len(Requests(results))
                                  /\ yielded' = yielded + Len(Items(results))
                                  /\ IF UseBatch(results)
                                       THEN /\ batchWg' = BatchWgAdd(batchWg)
                                            /\ batches' = Append(mine,
                                                 NewBatchGoroutine(BatchOf(results)))
                                       ELSE /\ batches' = mine
                                            /\ UNCHANGED batchWg
    /\ UNCHANGED <<concurrency, spider, seeds, hooks, runPc, workers, rwIdle,
                 rwAdding, resultPool, poolClosed, poolSenders, panicked,
                 spawned, bufferSize, requestChan, size, sendWaiting,
                 sizeOwed>>
    /\ UNCHANGED <<batchVars, schedVars, pipeVars, otherVars>>

\* processResultsConcurrently called by a batch goroutine, one element of
\* the send loops.
BatchRoute(k) ==
    /\ Running /\ batches[k].pc = "route"
    /\ PoolOffer(Head(batches[k].todo))
    /\ batches' = [batches EXCEPT
           ![k].todo = Tail(@),
           ![k].pc = IF Len(batches[k].todo) = 1 THEN "loop" ELSE "route"]
    /\ UNCHANGED <<concurrency, spider, seeds, hooks, runPc, workers, rwIdle,
                 rwAdding, poolClosed, batchWg, stats, emitted, yielded,
                 bufferSize, requestChan, size, sendWaiting, sizeOwed>>
    /\ UNCHANGED <<batchVars, schedVars, pipeVars, otherVars>>

\* The range loop ends on the closed, drained channel; the goroutine
\* returns and the deferred batchWg.Done() runs.
BatchEnd(k) ==
    /\ Running /\ batches[k].pc = "loop"
    /\ batches[k].dl.closed /\ batches[k].dl.ch = <<>>
    /\ batches' = RemoveAt(batches, k)
    /\ batchWg' = batchWg - 1
    /\ UNCHANGED <<concurrency, spider, seeds, hooks, runPc, workers, rwIdle,
                 rwAdding, resultPool, poolClosed, poolSenders, stats,
                 panicked, emitted, yielded, spawned, bufferSize, requestChan,
                 size, sendWaiting, sizeOwed>>
    /\ UNCHANGED <<batchVars, schedVars, pipeVars, otherVars>>

\* A result worker receives an element and runs processResult: a request is
\* enqueued (ChannelScheduler.Enqueue up to its send, or its detached
\* send), a record is counted and handed to the pipelines.
ResultWorkerRecv ==
    /\ Running /\ rwIdle > 0
    /\ resultPool # <<>>
    /\ resultPool' = Tail(resultPool)
    /\ LET r == Head(resultPool) IN
       IF r.t = "req"
         THEN IF ChanHasRoom(requestChan, bufferSize)
                THEN /\ requestChan' = ChanSend(requestChan, r)
                     /\ rwIdle' = rwIdle - 1
                     /\ rwAdding' = rwAdding + 1
                     /\ UNCHANGED <<sendWaiting, stats>>
                ELSE /\ sendWaiting' = BagAdd(sendWaiting, r)
                     /\ UNCHANGED <<requestChan, rwIdle, rwAdding, stats>>
         ELSE /\ stats' = updateStats(stats, "items", 1)
              /\ UNCHANGED <<requestChan, sendWaiting, rwIdle, rwAdding>>
    /\ UNCHANGED <<concurrency, spider, seeds, hooks, runPc, workers,
                 poolClosed, poolSenders, batches, batchWg, panicked, emitted,
                 yielded, spawned, bufferSize, size, sizeOwed>>
    /\ UNCHANGED <<batchVars, schedVars, pipeVars, otherVars>>

\* The result worker's atomic.AddInt64(&s.size, 1) after its send.
ResultWorkerSizeAdd ==
    /\ Running /\ rwAdding > 0
    /\ size' = size + 1
    /\ rwAdding' = rwAdding - 1
    /\ rwIdle' = rwIdle + 1
    /\ UNCHANGED <<concurrency, spider, seeds, hooks, runPc, workers,
                 resultPool, poolClosed, poolSenders, batches, batchWg, stats,
                 panicked, emitted, yielded, spawned, bufferSize, requestChan,
                 sendWaiting, sizeOwed>>
    /\ UNCHANGED <<batchVars, schedVars, pipeVars, otherVars>>

\* A result worker finds resultPool closed and drained, and returns.
ResultWorkerExit ==
    /\ Running /\ rwIdle > 0
    /\ poolClosed /\ resultPool = <<>>
    /\ rwIdle' = rwIdle - 1
    /\ UNCHANGED <<concurrency, spider, seeds, hooks, runPc, workers, rwAdding,
                 resultPool, poolClosed, poolSenders, batches, batchWg, stats,
                 panicked, emitted, yielded, spawned, bufferSize, requestChan,
                 size, sendWaiting, sizeOwed>>
    /\ UNCHANGED <<batchVars, schedVars, pipeVars, otherVars>>

\* A detached send to resultPool completes.
PoolSenderSend ==
    /\ Running /\ ~poolClosed
    /\ PoolHasRoom(resultPool)
    /\ \E i \in 1..Len(poolSenders) :
         /\ resultPool' = Append(resultPool, poolSenders[i])
         /\ poolSenders' = RemoveAt(poolSenders, i)
    /\ UNCHANGED <<concurrency, spider, seeds, hooks, runPc, workers, rwIdle,
                 rwAdding, poolClosed, batches, batchWg, stats, panicked,
                 emitted, yielded, spawned, bufferSize, requestChan, size,
                 sendWaiting, sizeOwed>>
    /\ UNCHANGED <<batchVars, schedVars, pipeVars, otherVars>>

\* A detached send to resultPool finds the channel closed: it panics, and
\* nothing recovers it.
PoolSenderPanic ==
    /\ Running /\ poolClosed
    /\ poolSenders # <<>>
    /\ panicked' = TRUE
    /\ UNCHANGED <<concurrency, spider, seeds, hooks, runPc, workers, rwIdle,
                 rwAdding, resultPool, poolClosed, poolSenders, batches,
                 batchWg, stats, emitted, yielded, spawned, bufferSize,
                 requestChan, size, sendWaiting, sizeOwed>>
    /\ UNCHANGED <<batchVars, schedVars, pipeVars, otherVars>>

\* A detached send of ChannelScheduler.Enqueue completes.
QueueSenderSend ==
    /\ Running
    /\ ChanHasRoom(requestChan, bufferSize)
    /\ \E i \in 1..Len(sendWaiting) :
         /\ requestChan' = ChanSend(requestChan, sendWaiting[i])
         /\ sendWaiting' = RemoveAt(sendWaiting, i)
    /\ sizeOwed' = sizeOwed + 1
    /\ UNCHANGED <<concurrency, spider, seeds, hooks, runPc, workers, rwIdle,
                 rwAdding, resultPool, poolClosed, poolSenders, batches,
                 batchWg, stats, panicked, emitted, yielded, spawned,
                 bufferSize, size>>
    /\ UNCHANGED <<batchVars, schedVars, pipeVars, otherVars>>

\* The detached send's atomic.AddInt64(&s.size, 1).
QueueSenderSizeAdd ==
    /\ Running /\ sizeOwed > 0
    /\ size' = size + 1
    /\ sizeOwed' = sizeOwed - 1
    /\ UNCHANGED <<concurrency, spider, seeds, hooks, runPc, workers, rwIdle,
                 rwAdding, resultPool, poolClosed, poolSenders, batches,
                 batchWg, stats, panicked, emitted, yielded, spawned,
                 bufferSize, requestChan, sendWaiting>>
    /\ UNCHANGED <<batchVars, schedVars, pipeVars, otherVars>>

\* Run: e.wg.Wait() returns once every polling worker has returned.
RunWorkersExited ==
    /\ Alive /\ runPc = "waitWorkers"
    /\ \A w \in 1..Len(workers) : workers[w].pc = "exited"
    /\ runPc' = "waitBatch"
    /\ UNCHANGED <<concurrency, spider, seeds, hooks, workers, rwIdle, rwAdding,
                 resultPool, poolClosed, poolSenders, batches, batchWg, stats,
                 panicked, emitted, yielded, spawned, bufferSize, requestChan,
                 size, sendWaiting, sizeOwed>>
    /\ UNCHANGED <<batchVars, schedVars, pipeVars, otherVars>>

\* A close that does not wait for batchWg.
RunCloseResultPoolEarly ==
    /\ Alive /\ runPc = "waitBatch"
    /\ poolClosed' = TRUE
    /\ runPc' = "waitResult"
    /\ UNCHANGED <<concurrency, spider, seeds, hooks, workers, rwIdle, rwAdding,
                 resultPool, poolSenders, batches, batchWg, stats, panicked,
                 emitted, yielded, spawned, bufferSize, requestChan, size,
                 sendWaiting, sizeOwed>>
    /\ UNCHANGED <<batchVars, schedVars, pipeVars, otherVars>>

\* Run: e.batchWg.Wait() returns, then close(e.resultPool).
RunCloseResultPool ==
    /\ Alive /\ runPc = "waitBatch"
    /\ batchWg = 0
    /\ poolClosed' = TRUE
    /\ runPc' = "waitResult"
    /\ UNCHANGED <<concurrency, spider, seeds, hooks, workers, rwIdle, rwAdding,
                 resultPool, poolSenders, batches, batchWg, stats, panicked,
                 emitted, yielded, spawned, bufferSize, requestChan, size,
                 sendWaiting, sizeOwed>>
    /\ UNCHANGED <<batchVars, schedVars, pipeVars, otherVars>>

\* Run: e.resultWg.Wait() returns, the statistics are printed, Run returns.
RunReturn ==
    /\ Alive /\ runPc = "waitResult"
    /\ rwIdle + rwAdding = 0
    /\ runPc' = "done"
    /\ UNCHANGED <<concurrency, spider, seeds, hooks, workers, rwIdle, rwAdding,
                 resultPool, poolClosed, poolSenders, batches, batchWg, stats,
                 panicked, emitted, yielded, spawned, bufferSize, requestChan,
                 size, sendWaiting, sizeOwed>>
    /\ UNCHANGED <<batchVars, schedVars, pipeVars, otherVars>>

Next ==
    \/ RunStart
    \/ \E w \in 1..Len(workers) : WorkerPoll(w)
    \/ \E w \in 1..Len(workers) : WorkerDownload(w)
    \/ \E w \in 1..Len(workers) : WorkerRoute(w)
    \/ \E k \in 1..Len(batches) : BatchStart(k)
    \/ \E k \in 1..Len(batches) : \E i \in 1..Len(batches[k].dl.reqs) : BatchFetch(k, i)
    \/ \E k \in 1..Len(batches) : BatchClose(k)
    \/ \E k \in 1..Len(batches) : BatchRecv(k)
    \/ \E k \in 1..Len(batches) : BatchRoute(k)
    \/ \E k \in 1..Len(batches) : BatchEnd(k)
    \/ ResultWorkerRecv
    \/ ResultWorkerSizeAdd
    \/ ResultWorkerExit
    \/ PoolSenderSend
    \/ PoolSenderPanic
    \/ QueueSenderSend
    \/ QueueSenderSizeAdd
    \/ RunWorkersExited
    \/ RunCloseResultPool
    \/ RunReturn

Spec == Init /\ [][Next]_vars

----------------------------------------------------------------------------
(***************************************************************************)
(* The engine's claims.                                                    *)
(***************************************************************************)
\* C1: when Run returns the system is quiescent: the queue is empty and
\* every task seeded or returned by Parse has reached processRequest or the
\* batch path's counting loop; none is left in the queue, in a detached send
\* to the queue, in resultPool or in a detached send to resultPool.
C1_QuiescentAtReturn ==
    runPc = "done" =>
        /\ requestChan = <<>> /\ sendWaiting = <<>>
        /\ resultPool = <<>> /\ poolSenders = <<>>
        /\ stats.total = emitted

\* The spider of the fan-out case: a seed parses to more than one task and
\* no record, each of these to no task and one record.
FanOutSpider ==
    /\ spider[1].reqs > 1 /\ spider[1].items = 0
    /\ spider[2].reqs = 0 /\ spider[2].items = 1

\* C2: a run with one seed, the fan-out spider, no dropping middleware and
\* no failed fetch does not panic, and Run returns with RequestsTotal
\* 1 + k and k records handed to the pipelines, k the seed's fan-out.
C2_FanOutTermination ==
    (seeds = 1 /\ ~hooks /\ FanOutSpider /\ stats.failed = 0) =>
        /\ ~panicked
        /\ runPc = "done" =>
             /\ stats.total = 1 + spider[1].reqs
             /\ stats.items = spider[1].reqs

\* C3: once the detached-delivery fallback has been used, the run still
\* does not panic, and when Run returns every record returned by Parse has
\* been handed to the pipelines and no detached delivery is left.
C3_BackpressureDelivers ==
    spawned =>
        /\ ~panicked
        /\ runPc = "done" => (stats.items = yielded /\ poolSenders = <<>>)

\* C4: when Run returns, RequestsSuccess + RequestsFailed = RequestsTotal.
C4_StatsBalance ==
    runPc = "done" => stats.success + stats.failed = stats.total

\* C5: resultPool is closed only after every goroutine that may send to it
\* has finished: no batch goroutine and no detached send is left when it is
\* closed, and no send finds it closed.
C5_CloseAfterDetachedWork ==
    /\ poolClosed => (batches = <<>> /\ poolSenders = <<>>)
    /\ ~panicked

\* C6: at every moment the number of Download calls in progress is at most
\* the configured concurrency.
C6_BoundedFetches == FetchesInProgress <= concurrency

\* C7: no reachable state short of Run's return leaves every goroutine
\* unable to take a step.
C7_NoStuckState == runPc = "done" \/ ENABLED Next

\* Elements of kind t ("req" or "item") a routing loop still has to send,
\* and those on their way through the shared result buffer: in resultPool
\* or held by a detached send to it.
CountKind(s, t) == Len(SelectSeq(s, LAMBDA e : e.t = t))
RECURSIVE ToSend(_, _)
ToSend(gs, t) ==
    IF gs = <<>> THEN 0 ELSE CountKind(gs[1].todo, t) + ToSend(Tail(gs), t)
Routing(t) == ToSend(workers, t) + ToSend(batches, t)
InBuffer(t) == CountKind(resultPool, t) + CountKind(poolSenders, t)

\* A step in which Parse returned tasks or records to the engine.
ParseStep == runPc # "idle" /\ (emitted' # emitted \/ yielded' # yielded)

\* C18: when Parse returns more than one task, all of them go to one new
\* batch goroutine and none is routed to the shared result buffer; when it
\* returns zero or one task, that task is routed to the shared result
\* buffer and no batch is started; the records are routed to the shared
\* result buffer in both cases; and every element routed there is sent to
\* the buffer or, when it is full, handed to a detached send to it.
C18_RoutingPartition ==
    /\ [][ParseStep =>
            LET dR == emitted' - emitted
                dI == yielded' - yielded
            IN  /\ Routing("item")' = Routing("item") + dI
                /\ InBuffer("req")' = InBuffer("req")
                /\ InBuffer("item")' = InBuffer("item")
                /\ IF dR > 1
                     THEN /\ Len(batches') = Len(batches) + 1
                          /\ batches'[Len(batches')].pc = "pre"
                          /\ Len(batches'[Len(batches')].reqs) = dR
                          /\ Routing("req")' = Routing("req")
                     ELSE /\ Len(batches') = Len(batches)
                          /\ Routing("req")' = Routing("req") + dR]_vars
    /\ [][\A t \in {"req", "item"} :
            Routing(t)' < Routing(t) =>
                /\ Routing(t)' = Routing(t) - 1
                /\ InBuffer(t)' = InBuffer(t) + 1]_vars

\* C18's case: one Parse returned two tasks and a record (the tasks went to
\* a batch, the record through the buffer to the output stage), and a later
\* Parse returned a single task, which is in the shared result buffer.
C18_Witness ==
    /\ spider[1].reqs = 2 /\ spider[1].items = 1 /\ spider[2].reqs = 1
    /\ stats.items = 1
    /\ batches # <<>>
    /\ CountKind(resultPool, "req") = 1

\* C21: processItem / processAnyItem, which count the record and run the
\* sink chain, are called at most once per record Parse has emitted, and
\* by the time Run returns exactly once per record.
C21_SinkOncePerRecord ==
    /\ stats.items <= yielded
    /\ runPc = "done" => stats.items = yielded

\* The polling workers that have not returned.
LiveWorkers == {w \in 1..Len(workers) : workers[w].pc # "exited"}

\* C22: with e.concurrency = n, Run starts exactly n polling workers, at
\* most n are live at any moment, and a worker that has returned is not
\* replaced: none is started later and none comes back.
C22_WorkerCount ==
    /\ [](IF runPc = "idle" THEN workers = <<>>
          ELSE /\ Len(workers) = concurrency
               /\ Cardinality(LiveWorkers) <= concurrency)
    /\ [][runPc # "idle" =>
            /\ Len(workers') = Len(workers)
            /\ LiveWorkers' \subseteq LiveWorkers]_vars

\* C22's case: of two workers started, one has returned while the other is
\* still fetching.
C22_Witness ==
    /\ concurrency = 2 /\ Len(workers) = 2
    /\ Cardinality(LiveWorkers) = 1
    /\ \E w \in LiveWorkers : workers[w].pc = "download"

\* C24: the step that handles a fetch failure, on the worker path and on
\* the batched path, adds exactly one to RequestsFailed and nothing to the
\* other counters, calls no Parse, routes nothing, starts no batch, puts
\* no task back in the queue, and leaves the run going: Run's position,
\* the live workers and the other batch goroutines are as before, and
\* nothing panics.
C24_FailureIsLocal ==
    [][stats'.failed # stats.failed =>
          /\ stats' = [stats EXCEPT !.failed = @ + 1]
          /\ emitted' = emitted /\ yielded' = yielded
          /\ \A t \in {"req", "item"} :
                Routing(t)' = Routing(t) /\ InBuffer(t)' = InBuffer(t)
          /\ Len(batches') = Len(batches)
          /\ requestChan' = requestChan /\ sendWaiting' = sendWaiting
          /\ size' = size
          /\ runPc' = runPc /\ panicked' = panicked
          /\ LiveWorkers' = LiveWorkers]_vars

\* C24's case: a run in which one fetch failed, the other tasks were
\* fetched and parsed, and Run has returned.
C24_Witness ==
    /\ runPc = "done" /\ ~panicked
    /\ stats.failed = 1 /\ stats.success >= 2 /\ stats.items >= 1

\* C25: Run moves forward only, through Idle ("idle"), Running
\* ("waitWorkers": wg.Wait), Draining ("waitBatch": batchWg.Wait, then
\* "waitResult": resultWg.Wait) and Closed ("done").  It starts waiting on
\* batchWg only when every polling worker has returned, closes resultPool
\* only when batchWg is zero, and reports the statistics only when
\* resultPool is closed and every result worker has returned.
C25_PhaseOrder ==
    /\ [][runPc' # runPc =>
            \/ runPc = "idle" /\ runPc' = "waitWorkers"
            \/ /\ runPc = "waitWorkers" /\ runPc' = "waitBatch"
               /\ LiveWorkers = {}
            \/ /\ runPc = "waitBatch" /\ runPc' = "waitResult"
               /\ batchWg = 0 /\ batches = <<>>
               /\ ~poolClosed /\ poolClosed'
            \/ /\ runPc = "waitResult" /\ runPc' = "done"
               /\ poolClosed /\ rwIdle + rwAdding = 0]_vars
    /\ [](poolClosed <=> runPc \in {"waitResult", "done"})
    /\ [](poolClosed => (batchWg = 0 /\ LiveWorkers = {}))

\* C25's case: a run that used a batch goroutine and the result workers
\* has gone through every phase.
C25_Witness ==
    /\ runPc = "done"
    /\ spider[1].reqs = 2 /\ stats.total = 3 /\ stats.items >= 1

\* C26: a polling worker returns only from a poll in which Dequeue returned
\* nil and Empty() was true and which is the maxEmptyCount-th such poll in
\* a row: emptyCount counts exactly these polls, goes back to zero on every
\* successful Dequeue and on every poll that finds Empty() false, and is
\* zero throughout the processing of a request.
C26_WorkerExit ==
    /\ [][\A w \in 1..Len(workers) :
            LET a == workers[w]
                b == workers'[w]
                idlePoll == /\ a.pc = "poll"
                            /\ Len(requestChan) = 0
                            /\ ChanEmpty(size)
            IN  /\ (a.pc # "exited" /\ b.pc = "exited") =>
                      /\ idlePoll
                      /\ a.emptyCount + 1 = maxEmptyCount
                /\ (b.pc # "exited" /\ b.emptyCount # a.emptyCount) =>
                      \/ b.emptyCount = 0
                      \/ idlePoll /\ b.emptyCount = a.emptyCount + 1
                /\ (WorkerPoll(w) /\ ~idlePoll) => b.emptyCount = 0
                /\ (WorkerPoll(w) /\ idlePoll /\ b.pc # "exited") =>
                      b.emptyCount = a.emptyCount + 1]_vars
    /\ [](\A w \in 1..Len(workers) :
            workers[w].pc \in {"download", "route"} =>
                workers[w].emptyCount = 0)

\* C26's case: one worker has returned after its run of empty polls while
\* another, which processed requests in between, is one empty poll short.
C26_Witness ==
    /\ stats.total >= 2
    /\ \E w \in 1..Len(workers) : workers[w].pc = "exited"
    /\ \E w \in 1..Len(workers) :
          /\ workers[w].pc = "poll"
          /\ workers[w].emptyCount = maxEmptyCount - 1

\* C35: every running batch goroutine is counted in batchWg from its
\* launch on (the Add precedes the go statement); the counter is raised by
\* one at a time and only by a polling worker inside processRequest or by a
\* batch goroutine in its range loop, itself counted; so once no polling
\* worker is left and the counter is zero it stays zero, in particular
\* after Run's wait on it has started or returned.
C35_BatchCounter ==
    /\ [](batchWg = Len(batches))
    /\ [][batchWg' > batchWg =>
            /\ batchWg' = batchWg + 1
            /\ \/ \E w \in LiveWorkers :
                     /\ workers[w].pc = "download"
                     /\ workers'[w] # workers[w]
               \/ /\ batchWg > 0
                  /\ \E k \in 1..Len(batches) :
                        /\ batches[k].pc = "loop"
                        /\ batches'[k] # batches[k]]_vars
    /\ [][(runPc # "idle" /\ LiveWorkers = {} /\ batchWg = 0) =>
              batchWg' = 0]_vars

\* C35's case: Run is waiting on batchWg, no polling worker is left, and a
\* batch goroutine has launched another, both counted.
C35_Witness ==
    /\ runPc = "waitBatch" /\ LiveWorkers = {}
    /\ batchWg = 2
    /\ batches[1].pc = "loop" /\ batches[2].pc = "loop"

\* The requests handed to batch goroutines that have not yet reached the
\* batch's counting loop.
RECURSIVE BatchPending(_)
BatchPending(bs) ==
    IF bs = <<>> THEN 0
    ELSE (IF bs[1].pc = "pre" THEN Len(bs[1].reqs) ELSE 0) + BatchPending(Tail(bs))

\* C36: every task instance, seeded or returned by Parse, is at any moment
\* in exactly one place: on the queue route (being routed to resultPool, in
\* it or in a detached send to it, in the queue or in a detached send to
\* the queue), on the batched route (handed to a batch goroutine), or
\* already counted at the start of its one fetch cycle; and no more fetches
\* have been made than cycles started.  So no task takes both routes and
\* none is fetched twice.
C36_FetchedAtMostOnce ==
    /\ emitted = stats.total
                 + Routing("req") + InBuffer("req")
                 + Len(requestChan) + Len(sendWaiting)
                 + BatchPending(batches)
    /\ stats.success + stats.failed + FetchesInProgress <= stats.total

\* C36's case: a finished run in which the seed's two tasks went through a
\* batch and the single task each of them parsed to went through the queue,
\* all five fetched.
C36_Witness ==
    /\ runPc = "done" /\ ~panicked
    /\ seeds = 1 /\ spider[1].reqs = 2 /\ spider[2].reqs = 1
    /\ emitted = 5
    /\ stats.success + stats.failed = 5

\* C37: whatever value SetConcurrency was called with and however many
\* seeds StartRequests returns, when Run returns every seed has been passed
\* to the fetch stage (counted by processRequest).
C37_SeedsFetched ==
    runPc = "done" => stats.total >= seeds

\* C40: when Run returns, ItemsScraped is the number of records returned by
\* all the Parse calls of the run, none of them still on its way through
\* the result buffer.
C40_ItemsCounted ==
    runPc = "done" =>
        /\ stats.items = yielded
        /\ InBuffer("item") = 0

----------------------------------------------------------------------------
(***************************************************************************)
(* The pipeline of a request: the ProcessRequest loop, Download, the       *)
(* ProcessResponse loop and Parse, as processRequest runs it for a polling *)
(* worker and as processBatchRequestsDirectly runs it for a batch.  The    *)
(* requests are numbered 1..pipeReqs, the middlewares 1..middlewares in    *)
(* registration order (AddMiddleware appends).  pipe is                    *)
(*   stage  "pre" (in the ProcessRequest loop), "download", "post" (in the *)
(*          ProcessResponse loop), "parse", "loop" (the batch's range      *)
(*          loop, between outcomes), "done";                               *)
(*   task   the request in hand;  mw  the middleware called next;          *)
(*   valid  validReqs of the batch;  dl  its DownloadBatch call.           *)
(* calls records every call made: [op, mw, task, out].                     *)
(***************************************************************************)
Called(op, mw, task, out) == [op |-> op, mw |-> mw, task |-> task, out |-> out]

RECURSIVE EnterPre(_)

\* The worker path after processRequest returns: the next request.
WorkerNext(p) ==
    IF p.task < pipeReqs
      THEN EnterPre([p EXCEPT !.task = @ + 1])
      ELSE [p EXCEPT !.stage = "done"]

\* The batch's middleware loop after one request: the next request, or the
\* end of the loop: return when validReqs is empty, else DownloadBatch.
BatchPreNext(p) ==
    IF p.task < pipeReqs
      THEN EnterPre([p EXCEPT !.task = @ + 1])
      ELSE IF Len(p.valid) = 0
        THEN [p EXCEPT !.stage = "done"]
        ELSE [p EXCEPT !.stage = "loop", !.dl = DownloadBatch(p.valid)]

\* A worker that goes from the pre-fetch hooks straight to Parse.
PreDoneUnfetched(p) ==
    IF pipePath = "worker"
      THEN [p EXCEPT !.stage = "parse"]
      ELSE BatchPreNext([p EXCEPT !.valid = Append(@, p.task)])

\* Every ProcessRequest passed the request on: the worker goes on to
\* Download, the batch appends the request to validReqs.
PreDone(p) ==
    IF pipePath = "worker"
      THEN [p EXCEPT !.stage = "download"]
      ELSE BatchPreNext([p EXCEPT !.valid = Append(@, p.task)])

\* A drop that is not honoured: the request goes on as if passed.
PreDroppedIgnored(p) == PreDone(p)
\* A ProcessRequest returned nil: processRequest returns; the batch's loop
\* breaks and the request is not appended.
PreDropped(p) ==
    IF pipePath = "worker" THEN WorkerNext(p) ELSE BatchPreNext(p)

\* The start of the ProcessRequest loop for the request in hand.
EnterPre(p) ==
    IF middlewares = 0 THEN PreDone(p) ELSE [p EXCEPT !.stage = "pre", !.mw = 1]

\* The start of the ProcessResponse loop for a successful outcome.
EnterPost(p) ==
    IF middlewares = 0 THEN [p EXCEPT !.stage = "parse"]
    ELSE [p EXCEPT !.stage = "post", !.mw = 1]

\* The request in hand is finished: processRequest returns, or the batch's
\* range loop goes on to the next outcome.
AfterTask(p) ==
    IF pipePath = "worker" THEN WorkerNext(p) ELSE [p EXCEPT !.stage = "loop"]

\* Parse has returned n results: processResultsConcurrently routes them
\* one after the other, and the request is finished after the last.
AfterParse(p, n) ==
    IF n = 0 THEN AfterTask(p) ELSE [p EXCEPT !.stage = "route", !.todo = n]

\* An outcome test that lets every outcome through.
OutcomeFailedNever(out) == FALSE
\* The batch's tests of an outcome: Error != nil, Response == nil.
OutcomeFailed(out) == out.err # "nil" \/ ~out.resp

Verdicts == {"pass", "drop"}

InitPipe ==
    /\ pipePath \in {"worker", "batch"}
    /\ middlewares \in 0..MaxMiddlewares
    /\ pipeReqs \in 1..MaxPipeReqs
    /\ pipe = [stage |-> "start", task |-> 1, mw |-> 0, valid |-> <<>>,
               dl |-> DownloadBatch(<<>>), todo |-> 0]
    /\ calls = <<>>
    /\ BatchIdle /\ SchedIdle /\ ChanIdle /\ EngineIdle /\ OtherIdle

\* processRequest is called with the first request; the batch goroutine
\* starts its middleware loop.
PipeStart ==
    /\ pipe.stage = "start"
    /\ pipe' = EnterPre(pipe)
    /\ UNCHANGED <<pipePath, middlewares, pipeReqs, calls>>
    /\ UNCHANGED <<batchVars, schedVars, chanVars, engineVars, otherVars>>

\* req = mw.ProcessRequest(req), one iteration of the loop.
PipePreHook ==
    /\ pipe.stage = "pre"
    /\ \E v \in Verdicts :
         /\ calls' = Append(calls, Called("ProcessRequest", pipe.mw, pipe.task, v))
         /\ pipe' = IF v = "drop" THEN PreDropped(pipe)
                    ELSE IF pipe.mw < middlewares THEN [pipe EXCEPT !.mw = @ + 1]
                    ELSE PreDone(pipe)
    /\ UNCHANGED <<pipePath, middlewares, pipeReqs>>
    /\ UNCHANGED <<batchVars, schedVars, chanVars, engineVars, otherVars>>

\* processRequest: e.downloader.Download(req) returns.
PipeDownload ==
    /\ pipe.stage = "download"
    /\ \E ok \in BOOLEAN :
         /\ calls' = Append(calls, Called("Download", 0, pipe.task,
                                          IF ok THEN "ok" ELSE "fail"))
         /\ pipe' = IF ok THEN EnterPost(pipe) ELSE WorkerNext(pipe)
    /\ UNCHANGED <<pipePath, middlewares, pipeReqs>>
    /\ UNCHANGED <<batchVars, schedVars, chanVars, engineVars, otherVars>>

\* A goroutine of the batch's DownloadBatch: Download returns, the outcome
\* is sent.
PipeBatchFetch(i) ==
    /\ pipe.stage \in {"loop", "post", "parse", "route"}
    /\ pipe.dl.gpc[i] = "fetch"
    /\ CanSend(pipe.dl)
    /\ \E ok \in BOOLEAN :
         /\ calls' = Append(calls, Called("Download", 0, pipe.dl.reqs[i],
                                          IF ok THEN "ok" ELSE "fail"))
         /\ pipe' = [pipe EXCEPT !.dl = GoSend(GoDownload(@, i, ok), i)]
    /\ UNCHANGED <<pipePath, middlewares, pipeReqs>>
    /\ UNCHANGED <<batchVars, schedVars, chanVars, engineVars, otherVars>>

\* The closer goroutine of the batch's DownloadBatch.
PipeBatchClose ==
    /\ pipe.stage \in {"loop", "post", "parse", "route"}
    /\ pipe.dl.reqs # <<>>
    /\ CloserReady(pipe.dl)
    /\ pipe' = [pipe EXCEPT !.dl = CloserClose(@)]
    /\ UNCHANGED <<pipePath, middlewares, pipeReqs, calls>>
    /\ UNCHANGED <<batchVars, schedVars, chanVars, engineVars, otherVars>>

\* The batch's range loop receives an outcome: a failed one is counted and
\* skipped, a successful one enters the ProcessResponse loop.
PipeBatchRecv ==
    /\ pipePath = "batch" /\ pipe.stage = "loop"
    /\ pipe.dl.ch # <<>>
    /\ LET out == Head(pipe.dl.ch)
           rest == [pipe EXCEPT !.dl = ChanRecv(@)]
       IN  pipe' = IF OutcomeFailed(out) THEN rest
                   ELSE EnterPost([rest EXCEPT !.task = out.req])
    /\ UNCHANGED <<pipePath, middlewares, pipeReqs, calls>>
    /\ UNCHANGED <<batchVars, schedVars, chanVars, engineVars, otherVars>>

\* resp = mw.ProcessResponse(req, resp), one iteration of the loop: nil
\* ends the request (return, or break and skip Parse).
PipePostHook ==
    /\ pipe.stage = "post"
    /\ \E v \in Verdicts :
         /\ calls' = Append(calls, Called("ProcessResponse", pipe.mw, pipe.task, v))
         /\ pipe' = IF v = "drop" THEN AfterTask(pipe)
                    ELSE IF pipe.mw < middlewares THEN [pipe EXCEPT !.mw = @ + 1]
                    ELSE [pipe EXCEPT !.stage = "parse"]
    /\ UNCHANGED <<pipePath, middlewares, pipeReqs>>
    /\ UNCHANGED <<batchVars, schedVars, chanVars, engineVars, otherVars>>

\* results := s.Parse(resp) returns its list.
PipeParse ==
    /\ pipe.stage = "parse"
    /\ calls' = Append(calls, Called("Parse", 0, pipe.task, "ok"))
    /\ \E n \in 0..MaxPipeResults : pipe' = AfterParse(pipe, n)
    /\ UNCHANGED <<pipePath, middlewares, pipeReqs>>
    /\ UNCHANGED <<batchVars, schedVars, chanVars, engineVars, otherVars>>

\* processResultsConcurrently(results): one element of the list is routed
\* (to resultPool, to a detached send or into a batch).
PipeRoute ==
    /\ pipe.stage = "route"
    /\ calls' = Append(calls, Called("Route", 0, pipe.task, "ok"))
    /\ pipe' = IF pipe.todo = 1 THEN AfterTask([pipe EXCEPT !.todo = 0])
               ELSE [pipe EXCEPT !.todo = @ - 1]
    /\ UNCHANGED <<pipePath, middlewares, pipeReqs>>
    /\ UNCHANGED <<batchVars, schedVars, chanVars, engineVars, otherVars>>

\* The batch's range loop ends: the channel is closed and drained.
PipeBatchEnd ==
    /\ pipePath = "batch" /\ pipe.stage = "loop"
    /\ pipe.dl.ch = <<>> /\ pipe.dl.closed
    /\ pipe' = [pipe EXCEPT !.stage = "done"]
    /\ UNCHANGED <<pipePath, middlewares, pipeReqs, calls>>
    /\ UNCHANGED <<batchVars, schedVars, chanVars, engineVars, otherVars>>

NextPipe ==
    \/ PipeStart
    \/ PipePreHook
    \/ PipeDownload
    \/ \E i \in 1..Len(pipe.dl.reqs) : PipeBatchFetch(i)
    \/ PipeBatchClose
    \/ PipeBatchRecv
    \/ PipePostHook
    \/ PipeParse
    \/ PipeRoute
    \/ PipeBatchEnd

SpecPipe == InitPipe /\ [][NextPipe]_vars

\* The calls of kind op made for request t, in the order made, and the
\* calls made for it before the q-th call.
CallsFor(t, op) == SelectSeq(calls, LAMBDA c : c.task = t /\ c.op = op)
Before(q, t, op) ==
    SelectSeq(SubSeq(calls, 1, q - 1), LAMBDA c : c.task = t /\ c.op = op)
\* All the middlewares passed: n calls, numbered 1..n, none a drop.
AllPassed(cs) ==
    /\ Len(cs) = middlewares
    /\ \A j \in 1..Len(cs) : cs[j].mw = j /\ cs[j].out = "pass"

\* C19: on both paths the hooks of a request are called in registration
\* order (the j-th ProcessRequest call is middleware j's, and so for
\* ProcessResponse), the fetch comes after every pre-fetch hook has passed
\* the request and Parse after every post-fetch hook has passed the
\* response, and once a hook has returned drop for a request no further
\* call is made for it: no later hook, no fetch, no Parse.
C19_HookOrderAndDrop ==
    /\ \A t \in 1..pipeReqs : \A op \in {"ProcessRequest", "ProcessResponse"} :
          \A j \in 1..Len(CallsFor(t, op)) : CallsFor(t, op)[j].mw = j
    /\ \A q \in 1..Len(calls) :
          /\ calls[q].out = "drop" =>
                \A r \in (q + 1)..Len(calls) : calls[r].task # calls[q].task
          /\ calls[q].op = "Download" =>
                AllPassed(Before(q, calls[q].task, "ProcessRequest"))
          /\ calls[q].op = "Parse" =>
                AllPassed(Before(q, calls[q].task, "ProcessResponse"))

\* C19's case: a batch in which the second middleware dropped one request
\* before the fetch and the second middleware dropped the other's response.
C19_Witness ==
    /\ pipePath = "batch" /\ pipe.stage = "done" /\ middlewares = 2
    /\ \E q, r \in 1..Len(calls) :
          /\ calls[q] = Called("ProcessRequest", 2, 1, "drop")
          /\ calls[r] = Called("ProcessResponse", 2, 2, "drop")

\* C20: on both paths Parse is called at most once for a request, only for
\* one whose fetch succeeded and whose response no post-fetch hook dropped
\* (never for a failed fetch), and by the end exactly once for each such
\* request.
C20_ParseOncePerSuccess ==
    \A t \in 1..pipeReqs :
       LET parses == Len(CallsFor(t, "Parse"))
           fetched == \E q \in 1..Len(calls) : calls[q] = Called("Download", 0, t, "ok")
           failed == \E q \in 1..Len(calls) : calls[q] = Called("Download", 0, t, "fail")
           dropped == \E q \in 1..Len(calls) :
                          /\ calls[q].task = t /\ calls[q].op = "ProcessResponse"
                          /\ calls[q].out = "drop"
       IN  /\ parses <= 1
           /\ parses = 1 => (fetched /\ ~dropped)
           /\ failed => parses = 0
           /\ (pipe.stage = "done" /\ fetched /\ ~dropped) => parses = 1

\* C20's case: a finished batch with one request fetched and parsed and
\* one request whose fetch failed.
C20_Witness ==
    /\ pipePath = "batch" /\ pipe.stage = "done" /\ pipeReqs = 2
    /\ \E t, u \in 1..pipeReqs :
          /\ Len(CallsFor(t, "Parse")) = 1
          /\ \E q \in 1..Len(calls) : calls[q] = Called("Download", 0, u, "fail")

\* C27: on both paths the stages of a request are strictly ordered.  Parse
\* is called for a request only after its Download has returned a response,
\* an element of its result list is routed only after its Parse has
\* returned, and nothing goes backwards: no Download of a request follows
\* its Parse or a routing of its results, and no Parse follows a routing.
C27_StageOrder ==
    \A q \in 1..Len(calls) :
       LET t == calls[q].task
       IN  /\ calls[q].op = "Parse" =>
                /\ \E r \in 1..(q - 1) : calls[r] = Called("Download", 0, t, "ok")
                /\ Before(q, t, "Route") = <<>>
           /\ calls[q].op = "Route" =>
                Len(Before(q, t, "Parse")) = 1
           /\ calls[q].op = "Download" =>
                /\ Before(q, t, "Parse") = <<>>
                /\ Before(q, t, "Route") = <<>>

\* C27's case: a finished batch in which one request was fetched, parsed
\* and had two results routed, the other request's fetch returning in
\* between.
C27_Witness ==
    /\ pipePath = "batch" /\ pipe.stage = "done" /\ pipeReqs = 2
    /\ \E t, u \in 1..pipeReqs :
          /\ t # u
          /\ Len(CallsFor(t, "Route")) = 2
          /\ \E q, r \in 1..Len(calls) :
                /\ q < r
                /\ calls[q] = Called("Parse", 0, t, "ok")
                /\ calls[r].op = "Download" /\ calls[r].task = u

\* The worker path of the same: fetched, parsed, routed.
C27_WorkerWitness ==
    /\ pipePath = "worker" /\ pipe.stage = "done"
    /\ \E t \in 1..pipeReqs :
          /\ Len(CallsFor(t, "Download")) = 1
          /\ Len(CallsFor(t, "Parse")) = 1
          /\ Len(CallsFor(t, "Route")) = MaxPipeResults

----------------------------------------------------------------------------
(***************************************************************************)
(* The engine's configuration.  eng holds the fields NewEngine sets:       *)
(* concurrency (e.concurrency), settings (e.settings.Concurrency), workers *)
(* (the capacity of the e.workers channel) and resultWorkers.  engRun      *)
(* follows Run through startResultWorkers and the worker start loop.       *)
(***************************************************************************)
\* Settings.Concurrency as NewEngine sets it.
DefaultConcurrency == 16

\* NewEngine: resultWorkers := settings.Concurrency / 2, at least 2.
ResultWorkersFor(c) == IF c \div 2 < 2 THEN 2 ELSE c \div 2

NewEngine ==
    [concurrency |-> DefaultConcurrency,
     settings |-> DefaultConcurrency,
     workers |-> DefaultConcurrency,
     resultWorkers |-> ResultWorkersFor(DefaultConcurrency)]

\* SetConcurrency(n): e.concurrency, e.settings.Concurrency, e.workers.
SetConcurrency(e, n) ==
    [e EXCEPT !.concurrency = n, !.settings = n, !.workers = n]

InitConfig ==
    /\ eng = NewEngine
    /\ engRun = [pc |-> "config", resultStarted |-> 0, workersStarted |-> 0]
    /\ StatIdle /\ FetchIdle
    /\ BatchIdle /\ SchedIdle /\ ChanIdle /\ EngineIdle /\ PipeIdle
    /\ CycleIdle

\* The caller configures the engine before Run.
CfgSetConcurrency ==
    /\ engRun.pc = "config"
    /\ \E n \in 1..MaxSetConcurrency : eng' = SetConcurrency(eng, n)
    /\ UNCHANGED <<engRun, statVars, fetchVars>>
    /\ UNCHANGED <<batchVars, schedVars, chanVars, engineVars, pipeVars, cycleVars>>

\* Run up to its call of startResultWorkers.
CfgRun ==
    /\ engRun.pc = "config"
    /\ engRun' = [engRun EXCEPT !.pc = "startResultWorkers"]
    /\ UNCHANGED <<eng, statVars, fetchVars>>
    /\ UNCHANGED <<batchVars, schedVars, chanVars, engineVars, pipeVars, cycleVars>>

\* startResultWorkers, one iteration: resultWg.Add(1) and go func; after
\* the last one Run goes on to its worker loop.
CfgStartResultWorker ==
    /\ engRun.pc = "startResultWorkers"
    /\ engRun.resultStarted < eng.resultWorkers
    /\ engRun' = [engRun EXCEPT
           !.resultStarted = @ + 1,
           !.pc = IF engRun.resultStarted + 1 < eng.resultWorkers
                    THEN "startResultWorkers" ELSE "startWorkers"]
    /\ UNCHANGED <<eng, statVars, fetchVars>>
    /\ UNCHANGED <<batchVars, schedVars, chanVars, engineVars, pipeVars, cycleVars>>

\* Run's worker loop, one iteration: wg.Add(1) and go e.worker; after the
\* last one Run waits.
CfgStartWorker ==
    /\ engRun.pc = "startWorkers"
    /\ engRun.workersStarted < eng.concurrency
    /\ engRun' = [engRun EXCEPT
           !.workersStarted = @ + 1,
           !.pc = IF engRun.workersStarted + 1 < eng.concurrency
                    THEN "startWorkers" ELSE "running"]
    /\ UNCHANGED <<eng, statVars, fetchVars>>
    /\ UNCHANGED <<batchVars, schedVars, chanVars, engineVars, pipeVars, cycleVars>>

NextConfig ==
    \/ CfgSetConcurrency
    \/ CfgRun
    \/ CfgStartResultWorker
    \/ CfgStartWorker

SpecConfig == InitConfig /\ [][NextConfig]_vars

\* C23: once Run has started its pools, the result-drain pool has
\* max(2, concurrency / 2) goroutines for the concurrency in effect, and
\* fewer than the main pool whenever that concurrency is above 2.
C23_DrainPoolSize ==
    engRun.pc = "running" =>
        /\ engRun.resultStarted =
              (IF eng.concurrency \div 2 > 2 THEN eng.concurrency \div 2 ELSE 2)
        /\ eng.concurrency > 2 => engRun.resultStarted < engRun.workersStarted

----------------------------------------------------------------------------
(***************************************************************************)
(* The statistics.  counters holds Stats' four counters, mu is stats.mu    *)
(* (0 when free, else the goroutine holding it) and callers the goroutines *)
(* inside updateStats, each with the key it was called with.  The          *)
(* statement `counter += value` is a load and a store.                     *)
(***************************************************************************)
StatKeys == {"total", "success", "failed", "items"}

\* A lock that is granted whoever holds it.
MuFreeAlways(m) == TRUE
\* e.stats.mu.Lock() proceeds when no goroutine holds the mutex.
MuFree(m) == m = 0

InitStats ==
    /\ mu = 0
    /\ counters = [total |-> 0, success |-> 0, failed |-> 0, items |-> 0]
    /\ \E n \in 1..MaxCallers :
          callers \in [1..n -> [pc : {"lock"}, key : StatKeys, tmp : {0}]]
    /\ CfgIdle /\ FetchIdle
    /\ BatchIdle /\ SchedIdle /\ ChanIdle /\ EngineIdle /\ PipeIdle
    /\ CycleIdle

\* updateStats: e.stats.mu.Lock()
StatsLock(c) ==
    /\ callers[c].pc = "lock"
    /\ MuFree(mu)
    /\ mu' = c
    /\ callers' = [callers EXCEPT ![c].pc = "load"]
    /\ UNCHANGED <<counters, cfgVars, fetchVars>>
    /\ UNCHANGED <<batchVars, schedVars, chanVars, engineVars, pipeVars, cycleVars>>

\* updateStats: the switch selects the counter, += loads it.
StatsLoad(c) ==
    /\ callers[c].pc = "load"
    /\ callers' = [callers EXCEPT ![c].pc = "store",
                                  ![c].tmp = counters[callers[c].key]]
    /\ UNCHANGED <<mu, counters, cfgVars, fetchVars>>
    /\ UNCHANGED <<batchVars, schedVars, chanVars, engineVars, pipeVars, cycleVars>>

\* updateStats: += stores the sum; every call site passes the value 1.
StatsStore(c) ==
    /\ callers[c].pc = "store"
    /\ counters' = [counters EXCEPT ![callers[c].key] = callers[c].tmp + 1]
    /\ callers' = [callers EXCEPT ![c].pc = "unlock"]
    /\ UNCHANGED <<mu, cfgVars, fetchVars>>
    /\ UNCHANGED <<batchVars, schedVars, chanVars, engineVars, pipeVars, cycleVars>>

\* updateStats: the deferred e.stats.mu.Unlock(), and the return.
StatsUnlock(c) ==
    /\ callers[c].pc = "unlock"
    /\ mu' = 0
    /\ callers' = [callers EXCEPT ![c].pc = "done"]
    /\ UNCHANGED <<counters, cfgVars, fetchVars>>
    /\ UNCHANGED <<batchVars, schedVars, chanVars, engineVars, pipeVars, cycleVars>>

NextStats ==
    \/ \E c \in 1..Len(callers) : StatsLock(c)
    \/ \E c \in 1..Len(callers) : StatsLoad(c)
    \/ \E c \in 1..Len(callers) : StatsStore(c)
    \/ \E c \in 1..Len(callers) : StatsUnlock(c)

SpecStats == InitStats /\ [][NextStats]_vars

\* The calls for key whose store has been made.
StoresMade(key) ==
    Cardinality({c \in 1..Len(callers) :
                    /\ callers[c].key = key
                    /\ callers[c].pc \in {"unlock", "done"}})

\* C28: no counter ever decreases, and no update is lost: at every moment
\* each counter equals the number of updateStats calls for it that have
\* made their update, so that once k concurrent calls for one counter have
\* returned it has increased by exactly k.
C28_CountersExact ==
    /\ [](\A key \in StatKeys : counters[key] = StoresMade(key))
    /\ [][\A key \in StatKeys : counters'[key] >= counters[key]]_vars

\* C28's case: MaxCallers concurrent calls have returned, two of them for
\* the same counter.
C28_Witness ==
    /\ Len(callers) = MaxCallers
    /\ \A c \in 1..Len(callers) : callers[c].pc = "done"
    /\ counters.total = MaxCallers - 1
    /\ counters.items = 1

----------------------------------------------------------------------------
(***************************************************************************)
(* HTTPDownloader.Download.  dlReq is the request and what the network     *)
(* will do with it: the class of req.Proxy, the number of redirect         *)
(* responses the server gives before the final one, and the fault on the   *)
(* way, if any.  dlCall follows one call: via is len(via) as client.Do     *)
(* keeps it (the requests made so far), sent the HTTP requests written to  *)
(* the network, and resp / err the pair returned.                          *)
(***************************************************************************)
\* The limit written in CheckRedirect.
MaxRedirects == 10

\* req.Proxy: empty; a proxy URL; a string url.Parse rejects ("://p",
\* "10.0.0.1:8080"); a string url.Parse accepts that names no host ("p").
Proxies == {"none", "valid", "unparsable", "noHost"}
\* http.NewRequest fails; a round trip fails (DNS, connection, TLS);
\* gzip.NewReader fails; io.ReadAll fails.
Faults == {"none", "build", "transport", "gzip", "read"}

\* A url.Parse that accepts every string.
UrlParseNeverFails(proxy) == FALSE
\* url.Parse(req.Proxy) returns an error.
UrlParseFails(proxy) == proxy = "unparsable"

\* CheckRedirect(req, via): the error when len(via) >= 10.
CheckRedirect(via) == via >= MaxRedirects

\* Download returns (nil, err).
DlFail(call, err) == [call EXCEPT !.pc = "returned", !.resp = FALSE, !.err = err]

InitDownload ==
    /\ dlReq \in [proxy : Proxies, redirects : 0..MaxChain, fault : Faults]
    /\ dlCall = [pc |-> "build", via |-> 0, sent |-> 0, resp |-> FALSE, err |-> "nil"]
    /\ CfgIdle /\ StatIdle
    /\ BatchIdle /\ SchedIdle /\ ChanIdle /\ EngineIdle /\ PipeIdle
    /\ CycleIdle

\* Download: buildHTTPRequest and its error return.
DlBuild ==
    /\ dlCall.pc = "build"
    /\ dlCall' = IF dlReq.fault = "build" THEN DlFail(dlCall, "build")
                 ELSE [dlCall EXCEPT !.pc = "proxy"]
    /\ UNCHANGED <<dlReq, cfgVars, statVars>>
    /\ UNCHANGED <<batchVars, schedVars, chanVars, engineVars, pipeVars, cycleVars>>

\* Download: the client copy and the proxy: url.Parse's error is returned,
\* else the transport clone gets the proxy.
DlProxy ==
    /\ dlCall.pc = "proxy"
    /\ dlCall' = IF dlReq.proxy # "none" /\ UrlParseFails(dlReq.proxy)
                   THEN DlFail(dlCall, "proxy")
                   ELSE [dlCall EXCEPT !.pc = "do"]
    /\ UNCHANGED <<dlReq, cfgVars, statVars>>
    /\ UNCHANGED <<batchVars, schedVars, chanVars, engineVars, pipeVars, cycleVars>>

\* client.Do, one round trip.  A proxy without a host cannot be dialled and
\* a transport fault may end any round trip: the error is returned.
\* Otherwise the request is written and answered, by a redirect while the
\* chain lasts and then by the final response.
DlSend ==
    /\ dlCall.pc = "do"
    /\ \/ /\ dlReq.proxy = "noHost" \/ dlReq.fault = "transport"
          /\ dlCall' = DlFail(dlCall, "transport")
       \/ /\ dlReq.proxy # "noHost"
          /\ dlCall' = [dlCall EXCEPT
                 !.sent = @ + 1,
                 !.via = @ + 1,
                 !.pc = IF dlCall.via < dlReq.redirects THEN "redirect" ELSE "body"]
    /\ UNCHANGED <<dlReq, cfgVars, statVars>>
    /\ UNCHANGED <<batchVars, schedVars, chanVars, engineVars, pipeVars, cycleVars>>

\* client.Do on a redirect response: CheckRedirect is called with the
\* requests made so far; its error ends the call, else the redirect is
\* followed.
DlCheckRedirect ==
    /\ dlCall.pc = "redirect"
    /\ dlCall' = IF CheckRedirect(dlCall.via) THEN DlFail(dlCall, "redirect")
                 ELSE [dlCall EXCEPT !.pc = "do"]
    /\ UNCHANGED <<dlReq, cfgVars, statVars>>
    /\ UNCHANGED <<batchVars, schedVars, chanVars, engineVars, pipeVars, cycleVars>>

\* Download from client.Do's return: the body is decompressed and read,
\* each error returned, and the response built.
DlBody ==
    /\ dlCall.pc = "body"
    /\ dlCall' = IF dlReq.fault = "gzip" THEN DlFail(dlCall, "gzip")
                 ELSE IF dlReq.fault = "read" THEN DlFail(dlCall, "read")
                 ELSE [dlCall EXCEPT !.pc = "returned", !.resp = TRUE, !.err = "nil"]
    /\ UNCHANGED <<dlReq, cfgVars, statVars>>
    /\ UNCHANGED <<batchVars, schedVars, chanVars, engineVars, pipeVars, cycleVars>>

NextDownload ==
    \/ DlBuild
    \/ DlProxy
    \/ DlSend
    \/ DlCheckRedirect
    \/ DlBody

SpecDownload == InitDownload /\ [][NextDownload]_vars

\* C29: a fetch with no other fault whose chain needs at most MaxRedirects
\* redirects returns the final response, having followed them all; one
\* whose chain needs more returns an error.
C29_RedirectBound ==
    (/\ dlCall.pc = "returned"
     /\ dlReq.fault = "none"
     /\ dlReq.proxy \in {"none", "valid"}) =>
        IF dlReq.redirects <= MaxRedirects
          THEN /\ dlCall.resp /\ dlCall.err = "nil"
               /\ dlCall.sent = dlReq.redirects + 1
          ELSE ~dlCall.resp /\ dlCall.err = "redirect"

\* What the code does: the bound is on the requests made, so that the
\* chains followed to the end are those of fewer than MaxRedirects
\* redirects.
C29_AsCoded ==
    (/\ dlCall.pc = "returned"
     /\ dlReq.fault = "none"
     /\ dlReq.proxy \in {"none", "valid"}) =>
        IF dlReq.redirects < MaxRedirects
          THEN /\ dlCall.resp /\ dlCall.err = "nil"
               /\ dlCall.sent = dlReq.redirects + 1
          ELSE /\ ~dlCall.resp /\ dlCall.err = "redirect"
               /\ dlCall.sent = MaxRedirects

\* C30: Download returns either a response and no error or no response and
\* an error, and it returns a response only when none of the failure
\* conditions arose: the proxy string parsed, the chain stayed within what
\* CheckRedirect allows, no round trip failed, and the body was
\* decompressed and read.  For a proxy string that does not parse, the
\* error is returned with no request written to the network.
C30_FailuresAreErrors ==
    /\ dlCall.resp <=> (dlCall.pc = "returned" /\ dlCall.err = "nil")
    /\ dlCall.resp =>
          /\ ~UrlParseFails(dlReq.proxy) /\ dlReq.proxy # "noHost"
          /\ ~CheckRedirect(dlReq.redirects)
          /\ dlReq.fault \notin {"build", "gzip", "read"}
    /\ (dlCall.pc = "returned" /\ dlReq.proxy \in {"unparsable", "noHost"}) =>
          /\ ~dlCall.resp
          /\ dlCall.err \in {"build", "proxy", "transport"}
          /\ dlCall.sent = 0
    /\ dlCall.err = "proxy" => dlReq.proxy = "unparsable"

\* C30's case: a proxy string url.Parse rejects has been reported, with a
\* nil response and nothing sent.
C30_Witness ==
    /\ dlCall.pc = "returned"
    /\ dlReq.proxy = "unparsable"
    /\ dlCall.err = "proxy" /\ ~dlCall.resp /\ dlCall.sent = 0

----------------------------------------------------------------------------
(***************************************************************************)
(* One request from Enqueue to the end of its cycle.  request holds the    *)
(* fields the middlewares touch: ua (Headers has a User-Agent), proxy      *)
(* (Proxy is not empty), hdr (Headers has the HeaderMiddleware's key),     *)
(* cookies (len(Cookies)) and retry (RetryTimes).  The schedulers, the     *)
(* engine and Download hand on the *request.Request pointer; the           *)
(* middlewares write through it.  taskRun holds the registered chain, the  *)
(* fields as they were at Enqueue (snap), whether the CookieMiddleware's   *)
(* jar has cookies for the domain, and whether the response's status is    *)
(* one of retryHTTPCodes.                                                  *)
(***************************************************************************)
MiddlewareKinds == {"UserAgent", "Proxy", "Retry", "Cookie", "Delay", "Header"}

\* Sequences of middlewares of length at most n.
Chains(n) == UNION {[1..k -> MiddlewareKinds] : k \in 0..n}

\* mw.ProcessRequest(req) on the request's fields.
ProcessRequest(kind, t, jar) ==
    IF kind = "UserAgent" THEN (IF t.ua THEN t ELSE [t EXCEPT !.ua = TRUE])
    ELSE IF kind = "Proxy" THEN (IF t.proxy THEN t ELSE [t EXCEPT !.proxy = TRUE])
    ELSE IF kind = "Header" THEN (IF t.hdr THEN t ELSE [t EXCEPT !.hdr = TRUE])
    ELSE IF kind = "Cookie" THEN (IF jar THEN [t EXCEPT !.cookies = @ + 1] ELSE t)
    ELSE t

\* mw.ProcessResponse(req, resp) on the request's fields.
ProcessResponse(kind, t, retryable) ==
    IF kind = "Retry" /\ retryable /\ t.retry < MaxRetryTimes
      THEN [t EXCEPT !.retry = @ + 1]
      ELSE t

InitTask ==
    /\ request \in [ua : BOOLEAN, proxy : BOOLEAN, hdr : BOOLEAN,
                    cookies : {0}, retry : 0..MaxRetryTimes]
    /\ \E ch \in Chains(MaxMiddlewares) : \E j, r \in BOOLEAN :
          taskRun = [pc |-> "new", mw |-> 0, chain |-> ch, snap |-> NoTask,
                     jar |-> j, retryable |-> r]
    /\ OpenIdle /\ RerunIdle
    /\ CfgIdle /\ StatIdle /\ FetchIdle
    /\ BatchIdle /\ SchedIdle /\ ChanIdle /\ EngineIdle /\ PipeIdle

\* e.scheduler.Enqueue(req): the pointer goes into the queue.
TaskEnqueue ==
    /\ taskRun.pc = "new"
    /\ taskRun' = [taskRun EXCEPT !.pc = "queued", !.snap = request]
    /\ UNCHANGED <<request, openVars, rerunVars>>
    /\ UNCHANGED <<batchVars, schedVars, chanVars, engineVars, pipeVars,
                   cfgVars, statVars, fetchVars>>

\* Dequeue returns the pointer; processRequest starts its ProcessRequest
\* loop.
TaskDequeue ==
    /\ taskRun.pc = "queued"
    /\ taskRun' = IF taskRun.chain = <<>> THEN [taskRun EXCEPT !.pc = "fetch"]
                  ELSE [taskRun EXCEPT !.pc = "pre", !.mw = 1]
    /\ UNCHANGED <<request, openVars, rerunVars>>
    /\ UNCHANGED <<batchVars, schedVars, chanVars, engineVars, pipeVars,
                   cfgVars, statVars, fetchVars>>

\* req = mw.ProcessRequest(req), one iteration.
TaskPreHook ==
    /\ taskRun.pc = "pre"
    /\ request' = ProcessRequest(taskRun.chain[taskRun.mw], request, taskRun.jar)
    /\ taskRun' = IF taskRun.mw < Len(taskRun.chain)
                    THEN [taskRun EXCEPT !.mw = @ + 1]
                    ELSE [taskRun EXCEPT !.pc = "fetch", !.mw = 0]
    /\ UNCHANGED <<openVars, rerunVars>>
    /\ UNCHANGED <<batchVars, schedVars, chanVars, engineVars, pipeVars,
                   cfgVars, statVars, fetchVars>>

\* e.downloader.Download(req): the request is read, not written; a failed
\* fetch ends the cycle.
TaskFetch ==
    /\ taskRun.pc = "fetch"
    /\ \E ok \in BOOLEAN :
         taskRun' = IF ~ok THEN [taskRun EXCEPT !.pc = "done"]
                    ELSE IF taskRun.chain = <<>> THEN [taskRun EXCEPT !.pc = "route"]
                    ELSE [taskRun EXCEPT !.pc = "post", !.mw = 1]
    /\ UNCHANGED <<request, openVars, rerunVars>>
    /\ UNCHANGED <<batchVars, schedVars, chanVars, engineVars, pipeVars,
                   cfgVars, statVars, fetchVars>>

\* resp = mw.ProcessResponse(req, resp), one iteration.
TaskPostHook ==
    /\ taskRun.pc = "post"
    /\ request' = ProcessResponse(taskRun.chain[taskRun.mw], request,
                                  taskRun.retryable)
    /\ taskRun' = IF taskRun.mw < Len(taskRun.chain)
                    THEN [taskRun EXCEPT !.mw = @ + 1]
                    ELSE [taskRun EXCEPT !.pc = "route", !.mw = 0]
    /\ UNCHANGED <<openVars, rerunVars>>
    /\ UNCHANGED <<batchVars, schedVars, chanVars, engineVars, pipeVars,
                   cfgVars, statVars, fetchVars>>

\* Parse and processResultsConcurrently: the results are routed, the
\* request is not touched.
TaskRoute ==
    /\ taskRun.pc = "route"
    /\ taskRun' = [taskRun EXCEPT !.pc = "done"]
    /\ UNCHANGED <<request, openVars, rerunVars>>
    /\ UNCHANGED <<batchVars, schedVars, chanVars, engineVars, pipeVars,
                   cfgVars, statVars, fetchVars>>

NextTask ==
    \/ TaskEnqueue
    \/ TaskDequeue
    \/ TaskPreHook
    \/ TaskFetch
    \/ TaskPostHook
    \/ TaskRoute

SpecTask == InitTask /\ [][NextTask]_vars

\* C31: from its Enqueue to the end of its cycle, every field of a request
\* other than the retry counter is what it was at Enqueue.
C31_ImmutableOnceEnqueued ==
    taskRun.pc \in {"queued", "pre", "fetch", "post", "route", "done"} =>
        [request EXCEPT !.retry = 0] = [taskRun.snap EXCEPT !.retry = 0]

\* What the code keeps: the dequeue, the fetch and the routing leave the
\* request as it is, and the post-fetch hooks change the retry counter only.
C31_AsCoded ==
    [][(~TaskPreHook /\ taskRun.pc # "new") =>
          [request EXCEPT !.retry = 0]' = [request EXCEPT !.retry = 0]]_vars

----------------------------------------------------------------------------
(***************************************************************************)
(* Run and its pipelines.  plines is e.pipelines: for each pipeline what   *)
(* its Open and its Close return, and how often each has been called.      *)
(* openRun follows Run: the Open loop (i the pipeline in turn), the defer   *)
(* statement, the run itself (started: the workers were started), the      *)
(* deferred Close loop, and the return (err: with an error).               *)
(***************************************************************************)
Outcomes == {"ok", "fail"}

InitOpen ==
    /\ \E n \in 0..MaxPipelines :
          plines \in [1..n -> [open : Outcomes, close : Outcomes,
                               opened : {0}, closed : {0}]]
    /\ openRun = [pc |-> "open", i |-> 1, deferred |-> FALSE, err |-> FALSE,
                  started |-> FALSE]
    /\ TaskIdle /\ RerunIdle
    /\ CfgIdle /\ StatIdle /\ FetchIdle
    /\ BatchIdle /\ SchedIdle /\ ChanIdle /\ EngineIdle /\ PipeIdle

\* Run's first loop, one iteration: p.Open(); an error is returned at once.
RunOpen ==
    /\ openRun.pc = "open" /\ openRun.i <= Len(plines)
    /\ plines' = [plines EXCEPT ![openRun.i].opened = @ + 1]
    /\ openRun' = IF plines[openRun.i].open = "fail"
                    THEN [openRun EXCEPT !.pc = "returned", !.err = TRUE]
                    ELSE [openRun EXCEPT !.i = @ + 1]
    /\ UNCHANGED <<taskVars, rerunVars>>
    /\ UNCHANGED <<batchVars, schedVars, chanVars, engineVars, pipeVars,
                   cfgVars, statVars, fetchVars>>

\* The loop is over: the defer statement registers the Close loop.
RunDefer ==
    /\ openRun.pc = "open" /\ openRun.i > Len(plines)
    /\ openRun' = [openRun EXCEPT !.pc = "body", !.deferred = TRUE]
    /\ UNCHANGED <<plines, taskVars, rerunVars>>
    /\ UNCHANGED <<batchVars, schedVars, chanVars, engineVars, pipeVars,
                   cfgVars, statVars, fetchVars>>

\* The rest of Run's body: seeds, workers, the waits, `return nil`.
RunBody ==
    /\ openRun.pc = "body"
    /\ openRun' = [openRun EXCEPT
           !.started = TRUE,
           !.i = 1,
           !.pc = IF Len(plines) = 0 THEN "returned" ELSE "close"]
    /\ UNCHANGED <<plines, taskVars, rerunVars>>
    /\ UNCHANGED <<batchVars, schedVars, chanVars, engineVars, pipeVars,
                   cfgVars, statVars, fetchVars>>

\* The deferred function, one iteration: p.Close(); an error is printed.
RunClose ==
    /\ openRun.pc = "close" /\ openRun.deferred
    /\ plines' = [plines EXCEPT ![openRun.i].closed = @ + 1]
    /\ openRun' = IF openRun.i < Len(plines)
                    THEN [openRun EXCEPT !.i = @ + 1]
                    ELSE [openRun EXCEPT !.pc = "returned"]
    /\ UNCHANGED <<taskVars, rerunVars>>
    /\ UNCHANGED <<batchVars, schedVars, chanVars, engineVars, pipeVars,
                   cfgVars, statVars, fetchVars>>

NextOpen ==
    \/ RunOpen
    \/ RunDefer
    \/ RunBody
    \/ RunClose

SpecOpen == InitOpen /\ [][NextOpen]_vars

\* C38: when Run has returned, every pipeline whose Open succeeded has been
\* closed exactly once, also when a later Open failed and Run returned an
\* error; and in that case no worker was started.
C38_OpenedAreClosed ==
    openRun.pc = "returned" =>
        /\ \A p \in 1..Len(plines) :
              (plines[p].opened = 1 /\ plines[p].open = "ok") =>
                  plines[p].closed = 1
        /\ openRun.err => ~openRun.started

----------------------------------------------------------------------------
(***************************************************************************)
(* Run called twice on one Engine.  NewEngine makes resultPool once; Run   *)
(* starts the result workers, lets the workers route their results, closes *)
(* resultPool and waits for the result workers.  rerun holds:              *)
(*   run      the Run call in progress (1 or 2);  pc  where it is;         *)
(*   closed   resultPool is closed;  pool  the elements in its buffer;     *)
(*   rw       the result workers running;  det  the detached sends;        *)
(*   todo     results the workers of this run have still to route;         *)
(*   later    the results of the second run;                               *)
(*   handled  elements the result workers have processed in this run;      *)
(*   panicked a goroutine has panicked.                                    *)
(***************************************************************************)
InitRerun ==
    /\ \E n, m \in 0..MaxRunResults :
          rerun = [run |-> 1, pc |-> "start", closed |-> FALSE, pool |-> 0,
                   rw |-> 0, det |-> 0, todo |-> n, later |-> m,
                   handled |-> 0, panicked |-> FALSE]
    /\ TaskIdle /\ OpenIdle
    /\ CfgIdle /\ StatIdle /\ FetchIdle
    /\ BatchIdle /\ SchedIdle /\ ChanIdle /\ EngineIdle /\ PipeIdle

\* Run up to wg.Wait(): startResultWorkers and the workers.
RrStart ==
    /\ ~rerun.panicked /\ rerun.pc = "start"
    /\ rerun' = [rerun EXCEPT !.pc = "work", !.rw = ResultWorkers]
    /\ UNCHANGED <<taskVars, openVars>>
    /\ UNCHANGED <<batchVars, schedVars, chanVars, engineVars, pipeVars,
                   cfgVars, statVars, fetchVars>>

\* processResultsConcurrently, one element: the select's send panics on a
\* closed channel, succeeds when there is room, and else the default case
\* starts a detached send.
RrSend ==
    /\ ~rerun.panicked /\ rerun.pc = "work" /\ rerun.todo > 0
    /\ rerun' = IF rerun.closed THEN [rerun EXCEPT !.panicked = TRUE]
                ELSE IF rerun.pool < ResultPoolCap
                  THEN [rerun EXCEPT !.todo = @ - 1, !.pool = @ + 1]
                  ELSE [rerun EXCEPT !.todo = @ - 1, !.det = @ + 1]
    /\ UNCHANGED <<taskVars, openVars>>
    /\ UNCHANGED <<batchVars, schedVars, chanVars, engineVars, pipeVars,
                   cfgVars, statVars, fetchVars>>

\* A detached send: it proceeds when there is room, and panics when the
\* channel is closed.
RrDetachedSend ==
    /\ ~rerun.panicked /\ rerun.det > 0
    /\ rerun.closed \/ rerun.pool < ResultPoolCap
    /\ rerun' = IF rerun.closed THEN [rerun EXCEPT !.panicked = TRUE]
                ELSE [rerun EXCEPT !.det = @ - 1, !.pool = @ + 1]
    /\ UNCHANGED <<taskVars, openVars>>
    /\ UNCHANGED <<batchVars, schedVars, chanVars, engineVars, pipeVars,
                   cfgVars, statVars, fetchVars>>

\* A result worker's range loop: it takes an element, or returns when the
\* channel is closed and drained.
RrResultWorker ==
    /\ ~rerun.panicked /\ rerun.rw > 0
    /\ rerun.pool > 0 \/ rerun.closed
    /\ rerun' = IF rerun.pool > 0
                  THEN [rerun EXCEPT !.pool = @ - 1, !.handled = @ + 1]
                  ELSE [rerun EXCEPT !.rw = @ - 1]
    /\ UNCHANGED <<taskVars, openVars>>
    /\ UNCHANGED <<batchVars, schedVars, chanVars, engineVars, pipeVars,
                   cfgVars, statVars, fetchVars>>

\* wg.Wait and batchWg.Wait have returned: close(e.resultPool), which
\* panics on a closed channel.
RrClose ==
    /\ ~rerun.panicked /\ rerun.pc = "work" /\ rerun.todo = 0
    /\ rerun' = IF rerun.closed THEN [rerun EXCEPT !.panicked = TRUE]
                ELSE [rerun EXCEPT !.closed = TRUE, !.pc = "wait"]
    /\ UNCHANGED <<taskVars, openVars>>
    /\ UNCHANGED <<batchVars, schedVars, chanVars, engineVars, pipeVars,
                   cfgVars, statVars, fetchVars>>

\* resultWg.Wait() returns; printStats; return nil.
RrReturn ==
    /\ ~rerun.panicked /\ rerun.pc = "wait" /\ rerun.rw = 0
    /\ rerun' = [rerun EXCEPT !.pc = "returned"]
    /\ UNCHANGED <<taskVars, openVars>>
    /\ UNCHANGED <<batchVars, schedVars, chanVars, engineVars, pipeVars,
                   cfgVars, statVars, fetchVars>>

\* The caller calls Run on the same Engine again.
RrRunAgain ==
    /\ ~rerun.panicked /\ rerun.pc = "returned" /\ rerun.run = 1
    /\ rerun' = [rerun EXCEPT !.run = 2, !.pc = "start", !.todo = rerun.later,
                              !.handled = 0]
    /\ UNCHANGED <<taskVars, openVars>>
    /\ UNCHANGED <<batchVars, schedVars, chanVars, engineVars, pipeVars,
                   cfgVars, statVars, fetchVars>>

NextRerun ==
    \/ RrStart
    \/ RrSend
    \/ RrDetachedSend
    \/ RrResultWorker
    \/ RrClose
    \/ RrReturn
    \/ RrRunAgain

SpecRerun == InitRerun /\ [][NextRerun]_vars

\* C39: a second Run on an Engine whose first Run completed with nothing
\* left behind works on an open resultPool, meets no send to and no second
\* close of a closed resultPool, and, once returned, has had every result
\* of its run processed.
C39_RunAgain ==
    (rerun.run = 2 /\ rerun.det = 0) =>
        /\ ~rerun.panicked
        /\ rerun.pc = "work" => ~rerun.closed
        /\ rerun.pc = "returned" => rerun.handled = rerun.later
============================================================================
